---- MODULE Spec2Model ----
(***************************************************************************)
(* Model of init_db.py: runtime schema migration (run_all_migrations),     *)
(* full initialisation (initialize_database_with_ai_models) and seeding    *)
(* (create_sample_data, create_default_users).                             *)
(*                                                                         *)
(* The database is a record: the schema (tables, columns, named            *)
(* constraints, declared widths) and the rows of the seeded tables.  The   *)
(* SQLAlchemy session is a pair of such records, the committed one and the *)
(* one the open transaction sees, plus the "transaction aborted" flag of   *)
(* the client-server backend.  Every step function of the source is an     *)
(* operator from session to session, and an action of the same name        *)
(* prefixed Run_ executes it at its position of the running entry point.   *)
(***************************************************************************)
EXTENDS Integers, Sequences, FiniteSets, TLC

\* ------------------------------------------------------------------ bounds
\* How many schema elements a starting schema may differ from the target in.
MaxMissing == 1
\* The injected rejection hits the 1st .. MaxFaultStmt-th statement of a step.
MaxFaultStmt == 2
\* Users unrelated to the seed accounts that a starting user table may hold.
MaxOtherUsers == 1

\* ----------------------------------------------------- connection descriptor
\* A descriptor is a sequence of characters; only its scheme matters.
SqliteUri == <<"s","q","l","i","t","e",":","/","/","/","q",".","d","b">>
PostgresUri == <<"p","o","s","t","g","r","e","s","q","l",":","/","/","h","/","d">>
PostgresDriverUri == <<"p","o","s","t","g","r","e","s","q","l","+","p","g","8",":","/","/","h">>
MysqlUri == <<"m","y","s","q","l",":","/","/","h","/","d">>

SqlitePrefix == <<"s","q","l","i","t","e">>
PostgresqlPrefix == <<"p","o","s","t","g","r","e","s","q","l">>
MysqlScheme == <<"m","y","s","q","l">>

Descriptors == {SqliteUri, PostgresUri, PostgresDriverUri}
\* One descriptor of each dialect family, for the runs of whole entry points.
RunDescriptors == {SqliteUri, PostgresUri}

\* str.startswith
StartsWith(str, prefix) ==
    /\ Len(str) >= Len(prefix)
    /\ SubSeq(str, 1, Len(prefix)) = prefix

\* db_url.startswith('sqlite')
IsSqlite(u) == StartsWith(u, SqlitePrefix)
\* db_url.startswith('postgresql')
IsPostgres(u) == StartsWith(u, PostgresqlPrefix)

\* The scheme of a descriptor up to the driver separator: the name of the
\* engine dialect (db.engine.dialect.name).
RECURSIVE SchemeEnd(_, _)
SchemeEnd(u, i) ==
    IF i > Len(u) THEN i
    ELSE IF u[i] \in {":", "+"} THEN i
    ELSE SchemeEnd(u, i + 1)

DialectName(u) ==
    LET sch == SubSeq(u, 1, SchemeEnd(u, 1) - 1)
    IN IF sch = SqlitePrefix THEN "sqlite"
       ELSE IF sch = PostgresqlPrefix THEN "postgresql"
       ELSE IF sch = MysqlScheme THEN "mysql"
       ELSE "other"

\* ------------------------------------------------------------ schema catalog
\* Tables of the ORM catalog that the step functions name.
ModelTables ==
    {"users", "organizations", "projects", "test_runs", "test_phases",
     "test_plans", "test_packages", "document_analysis", "user_roles",
     "user_preferences", "bdd_features", "bdd_scenarios", "bdd_steps",
     "test_cases", "selenium_tests", "unit_tests", "uploaded_code_files",
     "test_plan_test_runs", "test_package_test_runs",
     "virtual_test_executions", "generated_bdd_scenarios",
     "generated_manual_tests", "generated_automation_tests",
     "test_execution_comparisons", "sdd_reviews", "sdd_enhancements",
     "project_unit_tests", "workflows", "workflow_executions",
     "workflow_node_executions"}

\* required_columns of migrate_sdd_reviews_table
SddRequiredColumns ==
    <<"id", "project_id", "user_id", "document_name", "original_file_name",
      "overall_score", "executive_summary", "pain_points", "good_points",
      "enhancements", "architecture_analysis", "missing_sections",
      "recommendations", "chunks_analyzed", "analyzed_at", "created_at",
      "updated_at">>

SddJsonColumns ==
    {"pain_points", "good_points", "enhancements", "architecture_analysis",
     "missing_sections", "recommendations"}

\* required_columns of migrate_selenium_tests_schema: name, type
SeleniumRequiredColumns ==
    << <<"test_framework", "VARCHAR">>, <<"last_run_output", "TEXT">>,
       <<"last_run_error", "TEXT">>, <<"last_run_duration", "INTEGER">>,
       <<"last_run_screenshots", "JSONB">> >>

\* columns_to_add of migrate_project_archive_columns
ArchiveColumns == <<"archived_at", "archive_reason", "last_activity_at">>

\* constraints of migrate_test_management_unique_constraints: table, name
UniqueConstraints ==
    << <<"test_phases", "uq_test_phase_project_name">>,
       <<"test_plans", "uq_test_plan_phase_name">>,
       <<"test_packages", "uq_test_package_phase_name">> >>

Range(f) == {f[i] : i \in DOMAIN f}

\* The columns the step functions look at, per table.
MigratedColumns ==
    {<<"projects", "user_id">>, <<"users", "organization_id">>,
     <<"users", "ai_model_preference">>, <<"bdd_scenarios", "examples_data">>,
     <<"bdd_features", "content">>, <<"bdd_steps", "element_metadata">>,
     <<"user_roles", "content">>, <<"document_analysis", "content">>,
     <<"test_runs", "user_id">>, <<"test_cases", "category">>,
     <<"users", "email_verified">>, <<"users", "verification_token">>,
     <<"users", "verification_token_expires_at">>,
     <<"users", "test_runs_passed">>, <<"users", "test_runs_limit">>,
     <<"virtual_test_executions", "parent_execution_id">>,
     <<"virtual_test_executions", "version_number">>,
     <<"virtual_test_executions", "is_replay">>}
    \cup {<<"selenium_tests", c[1]>> : c \in Range(SeleniumRequiredColumns)}
    \cup {<<"sdd_reviews", c>> : c \in Range(SddRequiredColumns)}
    \cup {<<"projects", c>> : c \in Range(ArchiveColumns)}

\* Named constraints and the table each belongs to.
ConstraintTable ==
    [c \in {"users_username_key", "users_email_key", "fk_users_organization_id",
            "fk_test_runs_user_id", "test_plan_test_runs_test_run_id_fkey",
            "test_package_test_runs_test_run_id_fkey",
            "uq_test_phase_project_name", "uq_test_plan_phase_name",
            "uq_test_package_phase_name"} |->
       CASE c \in {"users_username_key", "users_email_key",
                   "fk_users_organization_id"} -> "users"
         [] c = "fk_test_runs_user_id" -> "test_runs"
         [] c = "test_plan_test_runs_test_run_id_fkey" -> "test_plan_test_runs"
         [] c = "test_package_test_runs_test_run_id_fkey" -> "test_package_test_runs"
         [] c = "uq_test_phase_project_name" -> "test_phases"
         [] c = "uq_test_plan_phase_name" -> "test_plans"
         [] c = "uq_test_package_phase_name" -> "test_packages"]

Constraints == DOMAIN ConstraintTable

\* The migrated column a foreign key is declared on.
ConstraintColumns(c) ==
    CASE c = "fk_users_organization_id" -> {<<"users", "organization_id">>}
      [] c = "fk_test_runs_user_id" -> {<<"test_runs", "user_id">>}
      [] OTHER -> {}

\* Columns with a declared width that a step may widen: table, column.
WidthColumns == {<<"bdd_scenarios", "name">>, <<"test_cases", "category">>}

\* Declared widths; NoWidth is a type without a length (reflection gives None).
NoWidth == 0
LegacyWidth == [c \in WidthColumns |-> IF c[1] = "bdd_scenarios" THEN 255 ELSE 100]
ModelWidth == [c \in WidthColumns |-> IF c[1] = "bdd_scenarios" THEN 1000 ELSE 255]

\* Tables that a step function creates itself when they are missing.
StepCreatedTables ==
    {"uploaded_code_files", "user_preferences", "sdd_reviews",
     "sdd_enhancements", "project_unit_tests", "virtual_test_executions",
     "generated_bdd_scenarios", "generated_manual_tests",
     "generated_automation_tests", "test_execution_comparisons", "workflows",
     "workflow_executions", "workflow_node_executions"}

\* ----------------------------------------------------------------- database
\* A schema is described by a set of elements:
\*   <<"T", t>>     table t exists
\*   <<"C", t, c>>  column c of t exists
\*   <<"K", k>>     named constraint k exists
\*   <<"W", t, c>>  column c of t has the width of the current ORM catalog
\*                  (without it: the legacy width)
\*   <<"X", t, c>>  column c of t is declared without a length
Elements ==
    {<<"T", t>> : t \in ModelTables}
    \cup {<<"C", c[1], c[2]>> : c \in MigratedColumns}
    \cup {<<"K", k>> : k \in Constraints}
    \cup {<<"W", c[1], c[2]>> : c \in WidthColumns}
    \cup {<<"X", c[1], c[2]>> : c \in WidthColumns}

TargetElements ==
    {e \in Elements : e[1] # "X" /\ e # <<"K", "users_username_key">>}

LegacyElements ==
    {<<"T", t>> : t \in ModelTables \ StepCreatedTables}
    \cup {<<"C", "test_cases", "category">>,
          <<"K", "users_username_key">>, <<"K", "users_email_key">>}

NoRows == [users |-> {}, projects |-> {}, runs |-> {}, phases |-> {},
           plans |-> {}, packages |-> {}]

\* The database with the schema that a set of elements describes, no rows.
\* Columns, widths and constraints of a table that does not exist are dropped,
\* and so is a foreign key whose column does not exist.
SchemaOf(E) ==
    LET tabs == {e[2] : e \in {x \in E : x[1] = "T"}}
        cols == {<<e[2], e[3]>> : e \in {x \in E : x[1] = "C" /\ x[2] \in tabs}}
                \cup {c \in WidthColumns : c[1] = "bdd_scenarios" /\ c[1] \in tabs}
    IN [tabs |-> tabs,
        cols |-> cols,
        cons |-> {e[2] : e \in {x \in E : /\ x[1] = "K"
                                          /\ ConstraintTable[x[2]] \in tabs
                                          /\ ConstraintColumns(x[2]) \subseteq cols}},
        wid |-> [c \in WidthColumns |->
                   IF c[1] \notin tabs THEN NoWidth
                   ELSE IF <<"X", c[1], c[2]>> \in E THEN NoWidth
                   ELSE IF <<"W", c[1], c[2]>> \in E THEN ModelWidth[c]
                   ELSE LegacyWidth[c]],
        users |-> {}, projects |-> {}, runs |-> {}, phases |-> {},
        plans |-> {}, packages |-> {}]

\* The schema part of a database (what the inspector can see).
Schema(d) == [tabs |-> d.tabs, cols |-> d.cols, cons |-> d.cons, wid |-> d.wid]

RECURSIVE SubsetsUpTo(_, _)
SubsetsUpTo(S, k) ==
    IF k = 0 THEN {{}}
    ELSE LET P == SubsetsUpTo(S, k - 1)
         IN P \cup {s \cup {e} : s \in P, e \in S}

SymDiff(A, B) == (A \ B) \cup (B \ A)

\* Starting schemas: the empty database, the legacy database (nothing of the
\* catalog applied yet) and every schema within MaxMissing elements of the
\* target.
StartElementSets ==
    {{}, LegacyElements}
    \cup {SymDiff(TargetElements, S) : S \in SubsetsUpTo(Elements, MaxMissing)}

\* ---------------------------------------------------------------- variables
VARIABLES
    uri,      \* the connection descriptor (DATABASE_URL), fixed for the process
    mode,     \* the entry point running: "migrate-only", "full-init", ...
    db,       \* the committed database
    tx,       \* the database as the session's open transaction sees it
    ab,       \* the backend has aborted the open transaction
    log,      \* events of the current process run
    prog,     \* the operations the running entry point still has to perform
    status,   \* "running", "done" or "raised" (the entry point re-raised)
    stepNo,   \* operations performed so far in this run
    fault,    \* <<n, i>>: the i-th statement of the n-th operation is rejected
    runNo,    \* which invocation of the process this is
    hist,     \* history: the database at start, and at the end of each run
              \* with the outcome of the run
    loc,      \* local variables of the entry points (admin_id, admin_user_id)
    nid       \* source of fresh identifiers (uuid.uuid4)

vars == <<uri, mode, db, tx, ab, log, prog, status, stepNo, fault, runNo, hist,
          loc, nid>>

\* ------------------------------------------------------------------ backend
\* The engine family behind the descriptor.
Backend == DialectName(uri)

Stmt(kind, tab, name, typ, len, refs, fk) ==
    [kind |-> kind, tab |-> tab, name |-> name, typ |-> typ, len |-> len,
     refs |-> refs, fk |-> fk]

AddColumn(tab, name, typ) == Stmt("ADD COLUMN", tab, name, typ, 0, {}, "none")
AddColumnRef(tab, name, typ, ref) ==
    Stmt("ADD COLUMN", tab, name, typ, 0, {ref}, "inline")
\* CREATE TABLE with every foreign key declared as a named constraint.
CreateTableNamed(tab, json, refs, fk) ==
    Stmt("CREATE TABLE", tab, "", json, 0, refs, "named")
\* fk: how the statement declares its foreign keys: "inline" on the column,
\* "clause" as unnamed FOREIGN KEY clauses of the table, "mixed" for both.
CreateTable(tab, json, refs, fk) == Stmt("CREATE TABLE", tab, "", json, 0, refs, fk)
AddConstraint(tab, name, typ, refs) ==
    Stmt("ADD CONSTRAINT", tab, name, typ, 0, refs, "named")
DropConstraintIfExists(tab, name) ==
    Stmt("DROP CONSTRAINT IF EXISTS", tab, name, "", 0, {}, "none")
AlterColumnType(tab, name, len) ==
    Stmt("ALTER COLUMN TYPE", tab, name, "VARCHAR", len, {}, "none")
ModifyColumn(tab, name, len) ==
    Stmt("MODIFY COLUMN", tab, name, "VARCHAR", len, {}, "none")

\* Two rows of a table agree on (parent, name).
HasDuplicateNames(rows) ==
    \E a, b \in rows : a # b /\ a.parent = b.parent /\ a.name = b.name

UniqueViolated(d, name) ==
    CASE name = "uq_test_phase_project_name" -> HasDuplicateNames(d.phases)
      [] name = "uq_test_plan_phase_name" -> HasDuplicateNames(d.plans)
      [] name = "uq_test_package_phase_name" -> HasDuplicateNames(d.packages)
      [] name = "users_email_key" ->
            \E a, b \in d.users : a # b /\ a.email = b.email
      [] OTHER -> FALSE

\* Why the backend rejects a statement against database d ("": it accepts).
\* The embedded engine has no ALTER TABLE ... ADD/DROP CONSTRAINT and no
\* ALTER COLUMN; the client-server engines check that a referenced table
\* exists.  MySQL has MODIFY COLUMN in place of ALTER COLUMN ... TYPE, no
\* JSONB type and no DROP CONSTRAINT IF EXISTS; the other engines have no
\* MODIFY COLUMN.
RejectedBy(engine, d, st) ==
    CASE st.kind = "ADD COLUMN" ->
            IF st.tab \notin d.tabs THEN "missing"
            ELSE IF <<st.tab, st.name>> \in d.cols THEN "exists"
            ELSE IF engine = "mysql" /\ st.typ = "JSONB" THEN "syntax"
            ELSE IF engine # "sqlite" /\ ~(st.refs \subseteq d.tabs) THEN "missing"
            ELSE ""
      [] st.kind = "CREATE TABLE" ->
            IF st.tab \in d.tabs THEN "exists"
            ELSE IF engine = "mysql" /\ st.typ = "JSONB" THEN "syntax"
            ELSE IF engine # "sqlite" /\ ~((st.refs \ {st.tab}) \subseteq d.tabs)
                 THEN "missing"
            ELSE ""
      [] st.kind = "ADD CONSTRAINT" ->
            IF engine = "sqlite" THEN "syntax"
            ELSE IF st.tab \notin d.tabs THEN "missing"
            ELSE IF st.name \in d.cons THEN "exists"
            ELSE IF ~(st.refs \subseteq d.tabs) THEN "missing"
            ELSE IF st.typ = "UNIQUE" /\ UniqueViolated(d, st.name) THEN "duplicate"
            ELSE ""
      [] st.kind = "DROP CONSTRAINT IF EXISTS" ->
            IF engine \in {"sqlite", "mysql"} THEN "syntax"
            ELSE IF st.tab \notin d.tabs THEN "missing"
            ELSE ""
      [] st.kind = "ALTER COLUMN TYPE" ->
            IF engine \in {"sqlite", "mysql"} THEN "syntax"
            ELSE IF <<st.tab, st.name>> \notin d.cols THEN "missing"
            ELSE ""
      [] st.kind = "MODIFY COLUMN" ->
            IF engine # "mysql" THEN "syntax"
            ELSE IF <<st.tab, st.name>> \notin d.cols THEN "missing"
            ELSE ""
      [] OTHER -> "syntax"

Reject(d, st) == RejectedBy(Backend, d, st)

\* The database after an accepted statement.
Effect(d, st) ==
    CASE st.kind = "ADD COLUMN" ->
            [d EXCEPT !.cols = @ \cup {<<st.tab, st.name>>},
                      !.users = IF st.tab = "users" /\ st.name = "ai_model_preference"
                                THEN {[u EXCEPT !.pref = "gpt-5"] : u \in @}
                                ELSE @]
      [] st.kind = "CREATE TABLE" ->
            [d EXCEPT !.tabs = @ \cup {st.tab},
                      !.cols = @ \cup {c \in MigratedColumns : c[1] = st.tab}]
      [] st.kind = "ADD CONSTRAINT" -> [d EXCEPT !.cons = @ \cup {st.name}]
      [] st.kind = "DROP CONSTRAINT IF EXISTS" -> [d EXCEPT !.cons = @ \ {st.name}]
      [] st.kind \in {"ALTER COLUMN TYPE", "MODIFY COLUMN"} ->
            [d EXCEPT !.wid[<<st.tab, st.name>>] = st.len]
      [] OTHER -> d

\* ------------------------------------------------------------------ session
\* db   committed database          tx   database as the open transaction sees it
\* ab   the backend has aborted the open transaction (PostgreSQL only)
\* log  events of the run: statements, commits, rollbacks, messages, calls
\* k    statements issued by the running step
\* flt  index of the statement of this step that is rejected (0: none)
\* ok   the last statement succeeded   why  the reason it was rejected
\* ret  value returned ("raise": an exception leaves the function)
\* id   next fresh identifier
Event(step, kind, st, ok) ==
    [step |-> step, kind |-> kind, tab |-> st.tab, name |-> st.name,
     typ |-> st.typ, fk |-> st.fk, refs |-> st.refs, stmt |-> st.kind,
     ok |-> ok, why |-> "", eff |-> FALSE]

NoStmt == Stmt("", "", "", "", 0, {}, "none")

\* The engine ends a schema statement at once, so that a later rollback()
\* does not undo it.  The embedded engine's driver opens a transaction only
\* before a data statement: a schema statement issued while no data change is
\* pending is committed when it returns.  MySQL commits the open transaction
\* with every schema statement.
Autocommits(engine, s) ==
    engine = "mysql" \/ (engine = "sqlite" /\ s.tx = s.db)

\* The process was killed during the step: nothing the step function does
\* after that point happens.
Dead(s) == s.why = "killed"

\* db.session.execute(text(...)); flt = n: the backend rejects the n-th
\* statement of the step; flt = -n: the process is killed when the n-th
\* statement has returned.
Execute(s, step, st) ==
    LET n == s.k + 1
        why == IF s.ab THEN "aborted"
               ELSE IF s.flt = n THEN "forced"
               ELSE Reject(s.tx, st)
        ok == why = ""
    IN IF Dead(s) THEN s
       ELSE [s EXCEPT
                 !.tx = IF ok THEN Effect(@, st) ELSE @,
                 !.db = IF ok /\ Autocommits(Backend, s) THEN Effect(s.tx, st) ELSE @,
                 !.ab = @ \/ (~ok /\ Backend = "postgresql"),
                 !.log = Append(@, [Event(step, "ddl", st, ok) EXCEPT
                                      !.why = why,
                                      !.eff = ok /\ Effect(s.tx, st) # s.tx]),
                 !.k = n, !.ok = ok,
                 !.why = IF s.flt = -n THEN "killed" ELSE why]

\* db.session.commit(): an aborted transaction ends without effect
Commit(s, step) ==
    IF Dead(s) THEN s
    ELSE [s EXCEPT !.db = IF s.ab THEN @ ELSE s.tx,
                   !.tx = IF s.ab THEN s.db ELSE @,
                   !.ab = FALSE,
                   !.log = Append(@, Event(step, "commit", NoStmt, ~s.ab))]

\* db.session.rollback()
Rollback(s, step) ==
    IF Dead(s) THEN s
    ELSE [s EXCEPT !.tx = s.db, !.ab = FALSE,
                   !.log = Append(@, Event(step, "rollback", NoStmt, TRUE))]

\* print(...): cls is the class of the message
\*   "applied"  a success message of a change made
\*   "exists"   a success message that nothing was needed
\*   "error"    a message marked as an error     "warn"  a warning
Say(s, step, cls) ==
    IF Dead(s) THEN s
    ELSE [s EXCEPT !.log = Append(@, [Event(step, "print", NoStmt, TRUE)
                                        EXCEPT !.name = cls])]

Return(s, v) == [s EXCEPT !.ret = v]
\* return of a row identifier
ReturnId(s, v) == [s EXCEPT !.ret = "id", !.val = v]

\* inspector.get_table_names() / get_columns(): the inspector reads through
\* the engine, so it sees the committed database.
TableExists(s, t) == t \in s.db.tabs
\* check_column_exists(table_name, column_name); the caller tests
\* TableExists first: get_columns raises for a table that does not exist.
check_column_exists(s, t, c) == <<t, c>> \in s.db.cols

\* A handler that prints nothing.
FailedSilent(s, step) == Return(Rollback(s, step), "False")

\* A handler that lets the exception go on to the caller.
FailedRaise(s, step) == Return(Rollback(Say(s, step, "error"), step), "raise")

\* The handler "except Exception: print(error); rollback(); return False"
Failed(s, step) == Return(Rollback(Say(s, step, "error"), step), "False")

\* ------------------------------------------------------------ step functions
\* JSON columns: TEXT on the embedded engine, JSONB otherwise.
JsonType(sqlite) == IF sqlite THEN "TEXT" ELSE "JSONB"

\* os.environ.get('DATABASE_URL', default): the value the configured URI was
\* taken from when the module was loaded.
EnvDatabaseUrl == uri

\* The single-column step without its existence check.
AddColumnUnguarded(s, step, st) ==
    IF ~TableExists(s, st.tab) THEN Failed(s, step)
    ELSE LET e == Execute(s, step, st)
         IN IF e.ok THEN Return(Say(Commit(e, step), step, "applied"), "True")
            ELSE Failed(e, step)

\* The add-column shape committing the session when the column exists.
AddColumnCommitting(s, step, st) ==
    IF ~TableExists(s, st.tab) THEN Failed(s, step)
    ELSE IF check_column_exists(s, st.tab, st.name)
         THEN Return(Say(Commit(s, step), step, "exists"), "True")
    ELSE AddColumnUnguarded(s, step, st)

\* The add-column shape returning without a commit.
AddColumnUncommitted(s, step, st) ==
    IF ~TableExists(s, st.tab) THEN Failed(s, step)
    ELSE IF check_column_exists(s, st.tab, st.name)
         THEN Return(Say(s, step, "exists"), "True")
    ELSE LET e == Execute(s, step, st)
         IN IF e.ok THEN Return(Say(e, step, "applied"), "True")
            ELSE Failed(e, step)

\* The shape shared by the single-column steps:
\*   try: if check_column_exists(..): return True
\*        execute(ALTER TABLE .. ADD COLUMN ..); commit(); return True
\*   except: rollback(); return False
AddColumnIfMissing(s, step, st) ==
    IF ~TableExists(s, st.tab) THEN Failed(s, step)
    ELSE IF check_column_exists(s, st.tab, st.name)
         THEN Return(Say(s, step, "exists"), "True")
    ELSE LET e == Execute(s, step, st)
         IN IF e.ok THEN Return(Say(Commit(e, step), step, "applied"), "True")
            ELSE Failed(e, step)

\* The shape shared by the single-table steps.
CreateTableIfMissing(s, step, st) ==
    IF TableExists(s, st.tab) THEN Return(Say(s, step, "exists"), "True")
    ELSE LET e == Execute(s, step, st)
         IN IF e.ok THEN Return(Say(Commit(e, step), step, "applied"), "True")
            ELSE Failed(e, step)

remove_username_constraint(s) ==
    LET n == "remove_username_constraint"
        e == Execute(s, n, DropConstraintIfExists("users", "users_username_key"))
    IN IF e.ok THEN Return(Say(Commit(e, n), n, "applied"), "None")
       ELSE Return(Rollback(Say(e, n, "error"), n), "None")

\* add_project_user_id adding the column with another width.
add_project_user_id_wide(s) ==
    AddColumnIfMissing(s, "add_project_user_id",
                       AddColumn("projects", "user_id", "VARCHAR(255)"))

add_project_user_id(s) ==
    AddColumnIfMissing(s, "add_project_user_id",
                       AddColumn("projects", "user_id", "VARCHAR(36)"))

add_organization_id_to_users(s) ==
    LET n == "add_organization_id_to_users"
        a == Execute(s, n, AddColumn("users", "organization_id", "VARCHAR(36)"))
        f == Execute(a, n, AddConstraint("users", "fk_users_organization_id",
                                         "FOREIGN KEY", {"organizations"}))
        g == IF f.ok THEN f ELSE Say(f, n, "warn")
    IN IF ~TableExists(s, "users") THEN Failed(s, n)
       ELSE IF check_column_exists(s, "users", "organization_id")
            THEN Return(Say(s, n, "exists"), "True")
       ELSE IF ~a.ok THEN Failed(a, n)
       ELSE IF IsSqlite(uri) THEN Return(Say(Commit(a, n), n, "applied"), "True")
       ELSE Return(Say(Commit(g, n), n, "applied"), "True")

migrate_ai_model_preference_column(s) ==
    LET n == "migrate_ai_model_preference_column"
        e == Execute(s, n, AddColumn("users", "ai_model_preference", "VARCHAR(50)"))
    IN IF ~TableExists(s, "users")
       THEN Return(Rollback(Say(s, n, "warn"), n), "None")
       ELSE IF check_column_exists(s, "users", "ai_model_preference")
            THEN Return(Say(s, n, "exists"), "None")
       ELSE IF e.ok THEN Return(Say(Commit(e, n), n, "applied"), "None")
       ELSE Return(Rollback(Say(e, n, "warn"), n), "None")

migrate_bdd_scenarios_examples_data(s) ==
    AddColumnIfMissing(s, "migrate_bdd_scenarios_examples_data",
                       AddColumn("bdd_scenarios", "examples_data", "TEXT"))

migrate_bdd_features_content(s) ==
    AddColumnIfMissing(s, "migrate_bdd_features_content",
                       AddColumn("bdd_features", "content", "TEXT"))

migrate_bdd_steps_element_metadata(s) ==
    AddColumnIfMissing(s, "migrate_bdd_steps_element_metadata",
        AddColumn("bdd_steps", "element_metadata", JsonType(IsSqlite(uri))))

migrate_user_roles_content(s) ==
    AddColumnIfMissing(s, "migrate_user_roles_content",
        AddColumn("user_roles", "content", JsonType(IsSqlite(uri))))

migrate_document_analysis_content(s) ==
    AddColumnIfMissing(s, "migrate_document_analysis_content",
        AddColumn("document_analysis", "content", JsonType(IsSqlite(uri))))

migrate_bdd_scenario_name_length(s) ==
    LET n == "migrate_bdd_scenario_name_length"
        e == Execute(s, n, AlterColumnType("bdd_scenarios", "name", 1000))
    IN IF IsSqlite(uri) THEN Return(Say(s, n, "exists"), "True")
       ELSE IF e.ok THEN Return(Say(Commit(e, n), n, "applied"), "True")
       ELSE Failed(e, n)

migrate_test_run_user_id(s) ==
    LET n == "migrate_test_run_user_id"
        a == Execute(s, n, AddColumn("test_runs", "user_id", "VARCHAR(36)"))
        f == Execute(a, n, AddConstraint("test_runs", "fk_test_runs_user_id",
                                         "FOREIGN KEY", {"users"}))
        g == IF f.ok THEN f ELSE Say(f, n, "warn")
    IN IF ~TableExists(s, "test_runs") THEN Failed(s, n)
       ELSE IF check_column_exists(s, "test_runs", "user_id")
            THEN Return(Say(s, n, "exists"), "True")
       ELSE IF ~a.ok THEN Failed(a, n)
       ELSE IF IsSqlite(uri) THEN Return(Say(Commit(a, n), n, "applied"), "True")
       ELSE Return(Say(Commit(g, n), n, "applied"), "True")

migrate_test_management_cascade_deletes(s) ==
    LET n == "migrate_test_management_cascade_deletes"
        planFk == "test_plan_test_runs_test_run_id_fkey"
        packFk == "test_package_test_runs_test_run_id_fkey"
        d1 == Execute(s, n, DropConstraintIfExists("test_plan_test_runs", planFk))
        d2 == IF d1.ok
              THEN Execute(d1, n, DropConstraintIfExists("test_package_test_runs", packFk))
              ELSE d1
        d == IF d2.ok THEN d2 ELSE Say(d2, n, "warn")
        a1 == Execute(d, n, AddConstraint("test_plan_test_runs", planFk,
                                          "FOREIGN KEY", {"test_runs"}))
        a2 == Execute(a1, n, AddConstraint("test_package_test_runs", packFk,
                                           "FOREIGN KEY", {"test_runs"}))
    IN IF IsSqlite(uri) THEN Return(Say(s, n, "exists"), "True")
       ELSE IF ~a1.ok THEN Return(Rollback(Say(a1, n, "warn"), n), "True")
       ELSE IF ~a2.ok THEN Return(Rollback(Say(a2, n, "warn"), n), "True")
       ELSE Return(Say(Commit(a2, n), n, "applied"), "True")

\* migrate_test_cases_category_length without its test of the current length.
migrate_test_cases_category_length_unguarded(s) ==
    LET n == "migrate_test_cases_category_length"
        e == IF Backend = "postgresql"
             THEN Execute(s, n, AlterColumnType("test_cases", "category", 255))
             ELSE Execute(s, n, ModifyColumn("test_cases", "category", 255))
    IN IF ~TableExists(s, "test_cases") THEN Return(Say(s, n, "warn"), "True")
       ELSE IF ~check_column_exists(s, "test_cases", "category")
            THEN Return(Say(s, n, "warn"), "True")
       ELSE IF e.ok THEN Return(Say(Commit(e, n), n, "applied"), "True")
       ELSE Return(Rollback(Say(e, n, "warn"), n), "False")

migrate_test_cases_category_length(s) ==
    LET n == "migrate_test_cases_category_length"
        current_length == s.db.wid[<<"test_cases", "category">>]
        e == IF Backend = "postgresql"
             THEN Execute(s, n, AlterColumnType("test_cases", "category", 255))
             ELSE Execute(s, n, ModifyColumn("test_cases", "category", 255))
    IN IF ~TableExists(s, "test_cases") THEN Return(Say(s, n, "warn"), "True")
       ELSE IF ~check_column_exists(s, "test_cases", "category")
            THEN Return(Say(s, n, "warn"), "True")
       ELSE IF current_length # NoWidth /\ current_length >= 255
            THEN Return(Say(s, n, "exists"), "True")
       ELSE IF e.ok THEN Return(Say(Commit(e, n), n, "applied"), "True")
       ELSE Return(Rollback(Say(e, n, "warn"), n), "False")

migrate_uploaded_code_files_table(s) ==
    CreateTableIfMissing(s, "migrate_uploaded_code_files_table",
        CreateTable("uploaded_code_files", JsonType(IsSqlite(uri)),
                    {"projects", "users", "unit_tests"}, "inline"))

migrate_user_preferences_table(s) ==
    CreateTableIfMissing(s, "migrate_user_preferences_table",
        CreateTable("user_preferences", "", {"users"}, "inline"))

\* for each column: if not check_column_exists(..): execute(ADD COLUMN)
\* stopping at the first statement that raises
RECURSIVE AddMissingColumns(_, _, _, _, _)
AddMissingColumns(s, step, tab, columns, i) ==
    IF i > Len(columns) \/ ~s.ok THEN s
    ELSE IF check_column_exists(s, tab, columns[i][1])
         THEN AddMissingColumns(s, step, tab, columns, i + 1)
    ELSE AddMissingColumns(
             Execute(s, step, AddColumn(tab, columns[i][1], columns[i][2])),
             step, tab, columns, i + 1)

EmailVerificationColumns ==
    << <<"email_verified", "BOOLEAN">>, <<"verification_token", "VARCHAR(100)">>,
       <<"verification_token_expires_at", "TIMESTAMP">> >>

migrate_users_email_verification(s) ==
    LET n == "migrate_users_email_verification"
        e == AddMissingColumns(s, n, "users", EmailVerificationColumns, 1)
    IN IF ~TableExists(s, "users") THEN Failed(s, n)
       ELSE IF \A c \in Range(EmailVerificationColumns) :
                   check_column_exists(s, "users", c[1])
            THEN Return(Say(s, n, "exists"), "True")
       ELSE IF e.ok THEN Return(Say(Commit(e, n), n, "applied"), "True")
       ELSE Failed(e, n)

migrate_users_test_runs_passed(s) ==
    AddColumnIfMissing(s, "migrate_users_test_runs_passed",
                       AddColumn("users", "test_runs_passed", "INTEGER"))

migrate_users_test_runs_limit(s) ==
    AddColumnIfMissing(s, "migrate_users_test_runs_limit",
                       AddColumn("users", "test_runs_limit", "INTEGER"))

migrate_selenium_tests_schema(s) ==
    LET n == "migrate_selenium_tests_schema"
        e == AddMissingColumns(s, n, "selenium_tests", SeleniumRequiredColumns, 1)
    IN IF ~TableExists(s, "selenium_tests") THEN Return(Say(s, n, "warn"), "True")
       ELSE IF \A c \in Range(SeleniumRequiredColumns) :
                   check_column_exists(s, "selenium_tests", c[1])
            THEN Return(Say(s, n, "exists"), "True")
       ELSE IF e.ok THEN Return(Say(Commit(e, n), n, "applied"), "True")
       ELSE Failed(e, n)

\* The column type migrate_sdd_reviews_table adds for a missing column.
SddColumnType(col, sqlite) ==
    IF col = "executive_summary" THEN "TEXT"
    ELSE IF col \in SddJsonColumns THEN JsonType(sqlite)
    ELSE IF col = "overall_score" THEN "REAL"
    ELSE IF col = "chunks_analyzed" THEN "INTEGER"
    ELSE IF col \in {"analyzed_at", "created_at", "updated_at"} THEN "TIMESTAMP"
    ELSE IF col \in {"document_name", "original_file_name"} THEN "VARCHAR(255)"
    ELSE "VARCHAR(36)"

\* The column loop keeping every rejected statement to itself.
RECURSIVE SddAddMissingSilent(_, _, _)
SddAddMissingSilent(s, existing, i) ==
    LET n == "migrate_sdd_reviews_table"
        col == SddRequiredColumns[i]
        e == Execute(s, n, AddColumn("sdd_reviews", col,
                                     SddColumnType(col, IsSqlite(EnvDatabaseUrl))))
        r == IF e.ok THEN Say(e, n, "added") ELSE e
    IN IF i > Len(SddRequiredColumns) THEN s
       ELSE IF <<"sdd_reviews", col>> \in existing
            THEN SddAddMissingSilent(s, existing, i + 1)
       ELSE SddAddMissingSilent(r, existing, i + 1)

\* for col in missing_columns: try: execute(ADD COLUMN); print(added)
\*   except: print(error) unless the message says the column exists
RECURSIVE SddAddMissing(_, _, _)
SddAddMissing(s, existing, i) ==
    LET n == "migrate_sdd_reviews_table"
        col == SddRequiredColumns[i]
        e == Execute(s, n, AddColumn("sdd_reviews", col,
                                     SddColumnType(col, IsSqlite(EnvDatabaseUrl))))
        r == IF e.ok THEN Say(e, n, "added")
             ELSE IF e.why # "exists" THEN Say(e, n, "error")
             ELSE e
    IN IF i > Len(SddRequiredColumns) THEN s
       ELSE IF <<"sdd_reviews", col>> \in existing THEN SddAddMissing(s, existing, i + 1)
       ELSE SddAddMissing(r, existing, i + 1)

migrate_sdd_reviews_table(s) ==
    LET n == "migrate_sdd_reviews_table"
        existing == s.db.cols
        missing == {c \in Range(SddRequiredColumns) : <<"sdd_reviews", c>> \notin existing}
        a == SddAddMissing(s, existing, 1)
        e == Execute(s, n, CreateTable("sdd_reviews",
                                       JsonType(IsSqlite(EnvDatabaseUrl)),
                                       {"projects", "users"}, "inline"))
    IN IF TableExists(s, "sdd_reviews")
       THEN IF missing # {}
            THEN Return(Say(Commit(a, n), n, "applied"), "True")
            ELSE Return(Say(s, n, "exists"), "True")
       ELSE IF e.ok THEN Return(Say(Commit(e, n), n, "applied"), "True")
       ELSE Failed(e, n)

migrate_sdd_enhancements_table(s) ==
    CreateTableIfMissing(s, "migrate_sdd_enhancements_table",
        CreateTable("sdd_enhancements", JsonType(IsSqlite(EnvDatabaseUrl)),
                    {"projects", "users", "sdd_reviews"}, "inline"))

migrate_project_unit_tests_table(s) ==
    CreateTableIfMissing(s, "migrate_project_unit_tests_table",
        CreateTable("project_unit_tests", JsonType(~IsPostgres(uri)),
                    {"projects", "users"}, "inline"))

\* One "if table not in inspector.get_table_names(): execute(CREATE TABLE);
\* commit()" block of a multi-table step; skipped once a statement has raised.
CreateBlock(s, step, st) ==
    IF ~s.ok THEN s
    ELSE IF TableExists(s, st.tab) THEN Say(s, step, "exists")
    ELSE LET e == Execute(s, step, st)
         IN IF e.ok THEN Say(Commit(e, step), step, "applied") ELSE e

\* One "if column not in columns: execute(ADD COLUMN); commit()" block.
ColumnBlock(s, step, existing, st) ==
    IF ~s.ok \/ <<st.tab, st.name>> \in existing THEN s
    ELSE LET e == Execute(s, step, st)
         IN IF e.ok THEN Say(Commit(e, step), step, "applied") ELSE e

migrate_virtual_testing_tables(s) ==
    LET n == "migrate_virtual_testing_tables"
        is_postgres == IsPostgres(uri)
        json_type == JsonType(~is_postgres)
        vte == "virtual_test_executions"
        existing == s.db.cols
        c1 == ColumnBlock(Say(s, n, "exists"), n, existing,
                 IF is_postgres
                 THEN AddColumnRef(vte, "parent_execution_id", "VARCHAR(36)", vte)
                 ELSE AddColumn(vte, "parent_execution_id", "VARCHAR(36)"))
        c2 == ColumnBlock(c1, n, existing, AddColumn(vte, "version_number", "INTEGER"))
        c3 == ColumnBlock(c2, n, existing, AddColumn(vte, "is_replay", "BOOLEAN"))
        t1 == IF TableExists(s, vte) THEN c3
              ELSE CreateBlock(s, n,
                       CreateTable(vte, json_type,
                                   {"test_runs", "users", "projects", vte},
                                   IF is_postgres THEN "inline" ELSE "clause"))
        t2 == CreateBlock(t1, n, CreateTable("generated_bdd_scenarios", json_type,
                                             {vte, "users"}, "clause"))
        t3 == CreateBlock(t2, n, CreateTable("generated_manual_tests", json_type,
                                             {vte, "users"}, "clause"))
        t4 == CreateBlock(t3, n, CreateTable("generated_automation_tests", json_type,
                                             {vte, "users"}, "clause"))
        t5 == CreateBlock(t4, n, CreateTable("test_execution_comparisons", json_type,
                                             {vte, "users"}, "clause"))
    IN IF t5.ok THEN Return(t5, "True") ELSE Failed(t5, n)

migrate_workflow_tables(s) ==
    LET n == "migrate_workflow_tables"
        json_type == JsonType(~IsPostgres(uri))
        t1 == CreateBlock(s, n, CreateTable("workflows", json_type,
                                            {"users", "projects"}, "inline"))
        t2 == CreateBlock(t1, n, CreateTable("workflow_executions", json_type,
                                             {"users", "workflows"}, "mixed"))
        t3 == CreateBlock(t2, n, CreateTable("workflow_node_executions", json_type,
                                             {"workflow_executions"}, "clause"))
    IN IF t3.ok THEN Return(t3, "None") ELSE Failed(t3, n)

\* The constraint loop giving up at the first constraint that is rejected.
RECURSIVE AddUniqueConstraintsStopping(_, _)
AddUniqueConstraintsStopping(s, i) ==
    LET n == "migrate_test_management_unique_constraints"
        c == UniqueConstraints[i]
        e == Execute(s, n, AddConstraint(c[1], c[2], "UNIQUE", {}))
    IN IF i > Len(UniqueConstraints) THEN s
       ELSE IF ~TableExists(s, c[1])
            THEN AddUniqueConstraintsStopping(Say(s, n, "warn"), i + 1)
       ELSE IF e.ok
            THEN AddUniqueConstraintsStopping(Say(Commit(e, n), n, "applied"), i + 1)
       ELSE Rollback(Say(e, n, "exists"), n)

\* for constraint_info in constraints: try: .. except: rollback()
RECURSIVE AddUniqueConstraints(_, _)
AddUniqueConstraints(s, i) ==
    LET n == "migrate_test_management_unique_constraints"
        c == UniqueConstraints[i]
        e == Execute(s, n, AddConstraint(c[1], c[2], "UNIQUE", {}))
        r == IF e.ok THEN Say(Commit(e, n), n, "applied")
             ELSE IF e.why \in {"exists", "duplicate"}
                  THEN Rollback(Say(e, n, "exists"), n)
             ELSE Rollback(Say(e, n, "warn"), n)
    IN IF i > Len(UniqueConstraints) THEN s
       ELSE IF ~TableExists(s, c[1]) THEN AddUniqueConstraints(Say(s, n, "warn"), i + 1)
       ELSE AddUniqueConstraints(r, i + 1)

migrate_test_management_unique_constraints(s) ==
    Return(AddUniqueConstraints(s, 1), "None")

\* for column_name, .. in columns_to_add: if check_column_exists: continue;
\*   execute(ADD COLUMN); commit()
RECURSIVE AddArchiveColumns(_, _)
AddArchiveColumns(s, i) ==
    LET n == "migrate_project_archive_columns"
        col == ArchiveColumns[i]
        typ == IF col = "archive_reason" THEN "TEXT"
               ELSE IF IsSqlite(uri) THEN "DATETIME" ELSE "TIMESTAMP"
        e == Execute(s, n, AddColumn("projects", col, typ))
    IN IF i > Len(ArchiveColumns) \/ ~s.ok THEN s
       ELSE IF check_column_exists(s, "projects", col)
            THEN AddArchiveColumns(Say(s, n, "exists"), i + 1)
       ELSE IF e.ok THEN AddArchiveColumns(Say(Commit(e, n), n, "applied"), i + 1)
       ELSE e

migrate_project_archive_columns(s) ==
    LET n == "migrate_project_archive_columns"
        e == AddArchiveColumns(s, 1)
    IN IF ~TableExists(s, "projects") THEN Failed(s, n)
       ELSE IF e.ok THEN Return(e, "True")
       ELSE Failed(e, n)

\* ------------------------------------------------------------ base tables
\* Named constraints the ORM catalog may declare on a table it creates: the
\* uniqueness of seed names and of the user email ("uq", "email" in orm), and
\* on the client-server engine the foreign keys it names by default.
OrmConstraints(orm) ==
    (IF "uq" \in orm THEN {c[2] : c \in Range(UniqueConstraints)} ELSE {})
    \cup (IF "email" \in orm THEN {"users_email_key"} ELSE {})
    \cup (IF Backend = "postgresql"
          THEN {"test_plan_test_runs_test_run_id_fkey",
                "test_package_test_runs_test_run_id_fkey"}
          ELSE {})

\* db.create_all(): creates every table of the ORM catalog that does not
\* exist, through the engine and in one transaction; raises when rejected.
\* db.create_all() in a caller that swallows its failure.
create_all_swallowed(s, orm) ==
    IF s.flt = 1
    THEN Return([s EXCEPT !.log = Append(@, [Event("create_all", "ddl",
                                                   CreateTable("*", "", {}, "none"),
                                                   FALSE)
                                               EXCEPT !.why = "forced"]),
                          !.k = 1, !.ok = FALSE, !.why = "forced"], "None")
    ELSE Return(s, "None")

create_all(s, orm) ==
    LET n == "create_all"
        new == ModelTables \ s.db.tabs
        d == [s.db EXCEPT
                !.tabs = @ \cup new,
                !.cols = @ \cup {c \in MigratedColumns \cup WidthColumns : c[1] \in new},
                !.cons = @ \cup {c \in OrmConstraints(orm) : ConstraintTable[c] \in new},
                !.wid = [c \in WidthColumns |->
                           IF c[1] \in new THEN ModelWidth[c] ELSE @[c]]]
        st == CreateTable("*", "", {}, "none")
    IN IF s.flt = 1
       THEN Return([s EXCEPT !.log = Append(@, [Event(n, "ddl", st, FALSE)
                                                  EXCEPT !.why = "forced"]),
                             !.k = 1, !.ok = FALSE, !.why = "forced"], "raise")
       ELSE IF new = {} THEN Return(s, "None")
       ELSE Return([s EXCEPT !.db = d, !.tx = d, !.k = 1,
                             !.log = Append(@, [Event(n, "ddl", st, TRUE)
                                                  EXCEPT !.eff = TRUE])], "None")

\* ------------------------------------------------------------------ seeding
AdminEmail == "admin@qaverse.com"
MiriamEmail == "miriam.dahmoun@gmail.com"
DefaultModel == "gpt-5"
\* ai_model_preference values: the default, another model, '' and NULL
Preferences == {DefaultModel, "other-model", "", "NULL"}

\* Columns of the ORM classes that this script itself assigns or filters on;
\* a query or insert through the class names them all.
OrmColumns(t) ==
    CASE t = "users" -> {<<"users", "ai_model_preference">>, <<"users", "email_verified">>}
      [] t = "projects" -> {<<"projects", "user_id">>}
      [] t = "test_runs" -> {<<"test_runs", "user_id">>}
      [] OTHER -> {}

\* A statement through ORM class of table t is accepted.
Mapped(d, t) == t \in d.tabs /\ OrmColumns(t) \subseteq d.cols

\* An ORM statement raised: nothing is pending any more for the caller (the
\* failed flush rolls the session back), the exception leaves the function.
Raise(s, step) ==
    Return([s EXCEPT !.tx = s.db, !.ab = FALSE, !.ok = FALSE,
                     !.log = Append(@, Event(step, "raise", NoStmt, FALSE))],
           "raise")

\* The rows pending in the session violate a uniqueness the schema declares.
IntegrityError(d) ==
    \E c \in d.cons : UniqueViolated(d, c)

\* db.session.commit() with pending ORM rows: flush, then commit.
CommitRows(s, step) ==
    IF IntegrityError(s.tx) THEN Raise(s, step) ELSE Commit(s, step)

\* db.session.add(row): the row gets the next identifier of the sequence.
AddRow(s, step, tab, row) ==
    [s EXCEPT !.tx[tab] = @ \cup {[row EXCEPT !.id = s.id]}, !.id = @ + 1,
              !.log = Append(@, [Event(step, "insert", NoStmt, TRUE)
                                   EXCEPT !.tab = tab])]

\* The update without its filter: every user gets the default.
UpdateAllPreferences(m) ==
    Return(Say(Commit([m EXCEPT !.tx.users =
                         {[u EXCEPT !.pref = DefaultModel] : u \in @}],
                      "update_existing_users_ai_preference"),
               "update_existing_users_ai_preference", "applied"),
           "None")

\* The update committing whether or not the query found a user.
UpdatePreferencesCommitting(m) ==
    LET n == "update_existing_users_ai_preference"
    IN Return(Say(Commit([m EXCEPT !.tx.users =
                            {IF u.pref \in {"NULL", ""}
                             THEN [u EXCEPT !.pref = DefaultModel]
                             ELSE u : u \in @}], n),
                  n, "applied"),
              "None")

\* update_existing_users_ai_preference once the column has been seen to: the
\* query, the assignments and the commit.
UpdatePreferences(m) ==
    LET n == "update_existing_users_ai_preference"
        users_without_preference == {u \in m.tx.users : u.pref \in {"NULL", ""}}
    IN IF ~Mapped(m.tx, "users")
       THEN Return(Rollback(Say([m EXCEPT !.ab = (Backend = "postgresql")], n, "warn"), n),
                   "None")
       ELSE IF users_without_preference # {}
            THEN Return(Say(Commit([m EXCEPT !.tx.users =
                                      {IF u.pref \in {"NULL", ""}
                                       THEN [u EXCEPT !.pref = DefaultModel]
                                       ELSE u : u \in @}], n),
                            n, "applied"),
                        "None")
       ELSE Return(Say(m, n, "exists"), "None")

update_existing_users_ai_preference(s) ==
    UpdatePreferences(migrate_ai_model_preference_column(
        [s EXCEPT !.log = Append(@, Event("update_existing_users_ai_preference",
                                          "call", NoStmt, TRUE))]))

\* The inserts without the second default account.
InsertAdminOnly(s) ==
    CommitRows(AddRow(s, "create_default_users", "users",
                      [id |-> 0, email |-> AdminEmail, pref |-> DefaultModel]),
               "create_default_users")

\* create_default_users when no admin row was found: the two inserts and the
\* commit.
InsertDefaultUsers(s) ==
    CommitRows(
        AddRow(AddRow(s, "create_default_users", "users",
                      [id |-> 0, email |-> AdminEmail, pref |-> DefaultModel]),
               "create_default_users", "users",
               [id |-> 0, email |-> MiriamEmail, pref |-> DefaultModel]),
        "create_default_users")

\* ... and what follows the commit: the message, the update of the other
\* users, the return of the admin's identifier.
DefaultUsersCommitted(c, admin_id) ==
    IF c.ret = "raise" THEN c
    ELSE ReturnId(update_existing_users_ai_preference(
                      Say(c, "create_default_users", "applied")),
                  admin_id)

\* create_default_users without its guard.
create_default_users_unguarded(s, pick) ==
    IF ~Mapped(s.tx, "users") THEN Raise(s, "create_default_users")
    ELSE DefaultUsersCommitted(InsertDefaultUsers(s), s.id)

\* create_default_users refreshing the preferences on the guarded path too.
create_default_users_refreshing(s, pick) ==
    IF ~Mapped(s.tx, "users") THEN Raise(s, "create_default_users")
    ELSE IF pick \in s.tx.users
         THEN ReturnId(update_existing_users_ai_preference(
                           Say(s, "create_default_users", "exists")),
                       pick.id)
    ELSE DefaultUsersCommitted(InsertDefaultUsers(s), s.id)

\* pick: the row User.query.filter_by(email=..).first() returns when there
\* is one (any of the matching rows).
create_default_users(s, pick) ==
    IF ~Mapped(s.tx, "users") THEN Raise(s, "create_default_users")
    ELSE IF pick \in s.tx.users
         THEN ReturnId(Say(s, "create_default_users", "exists"), pick.id)
    ELSE DefaultUsersCommitted(InsertDefaultUsers(s), s.id)

\* The rows first() may return for the admin email; {NoUser} when none.
NoUser == [id |-> 0, email |-> "", pref |-> ""]
AdminCandidates(d) ==
    IF \E u \in d.users : u.email = AdminEmail
    THEN {u \in d.users : u.email = AdminEmail}
    ELSE {NoUser}

\* Names are sequences of words.
SampleProjectNames ==
    << <<"E-Commerce", "Platform">>, <<"Banking", "Application">>,
       <<"Healthcare", "Portal">> >>

Contains(name, word) == \E i \in DOMAIN name : name[i] = word

\* The selection asking for the retail keyword first.
get_domain_expertise_retail_first(project_name) ==
    IF Contains(project_name, "E-Commerce") THEN "retail"
    ELSE IF Contains(project_name, "Banking") THEN "financial"
    ELSE "healthcare"

get_domain_expertise_for_project(project_name) ==
    IF Contains(project_name, "Banking") THEN "financial"
    ELSE IF Contains(project_name, "E-Commerce") THEN "retail"
    ELSE "healthcare"

\* The rows of a set in the order of their identifiers (the order of insertion).
RECURSIVE InOrder(_)
InOrder(rows) ==
    IF rows = {} THEN <<>>
    ELSE LET r == CHOOSE x \in rows : \A y \in rows : x.id <= y.id
         IN <<r>> \o InOrder(rows \ {r})

\* create_sample_data skipping only once all three sample projects exist.
SampleDataComplete(d) == Cardinality(d.projects) >= 3

\* create_sample_data, "if Project.query.count() > 0: return"
SampleDataPresent(d) == Cardinality(d.projects) > 0

\* create_sample_data: the three sample projects, one commit
RECURSIVE AddProjects(_, _, _)
AddProjects(s, owner, i) ==
    IF i > Len(SampleProjectNames) THEN s
    ELSE AddProjects(AddRow(s, "create_sample_data", "projects",
                            [id |-> s.id, owner |-> owner,
                             name |-> SampleProjectNames[i]]),
                     owner, i + 1)

seed_projects(s, admin_user_id) ==
    LET n == "create_sample_data"
        c == CommitRows(AddProjects(s, admin_user_id, 1), n)
    IN IF ~Mapped(s.tx, "projects") THEN Raise(s, n)
       ELSE IF c.ret = "raise" THEN c
       ELSE Return(c, "None")

RunNames == <<"Initial Requirements Analysis", "Sprint 1 Regression", "Sprint 2 Features">>

\* create_sample_data: three test runs for every project, one commit
RECURSIVE AddRuns(_, _, _, _)
AddRuns(s, owner, projects, i) ==
    LET p == projects[i]
        profile == get_domain_expertise_for_project(p.name)
        run(j) == [id |-> s.id + j - 1, parent |-> p.id, owner |-> owner,
                   name |-> <<RunNames[j]>> \o p.name,
                   profile |-> IF j = 2 THEN "none" ELSE profile]
        r1 == AddRow(s, "create_sample_data", "runs", run(1))
        r2 == AddRow(r1, "create_sample_data", "runs", run(2))
        r3 == AddRow(r2, "create_sample_data", "runs", run(3))
    IN IF i > Len(projects) THEN s
       ELSE AddRuns(r3, owner, projects, i + 1)

seed_runs(s, admin_user_id) ==
    LET n == "create_sample_data"
        c == CommitRows(AddRuns(s, admin_user_id, InOrder(s.tx.projects), 1), n)
    IN IF ~Mapped(s.tx, "projects") \/ ~Mapped(s.tx, "test_runs") THEN Raise(s, n)
       ELSE IF c.ret = "raise" THEN c
       ELSE Return(Say(c, n, "applied"), "None")

PhaseNames == <<"Requirements Analysis Phase", "Development Testing Phase",
                "System Testing Phase">>
PlanSuffixes == <<"Functional Tests", "Security Tests">>
PackageSuffixes == <<"Smoke Tests", "Regression Tests">>

\* the plans and packages of the phases of one project
RECURSIVE AddPlansAndPackages(_, _, _)
AddPlansAndPackages(s, phases, i) ==
    LET n == "create_test_management_structures"
        ph == phases[i]
        row(j, suffix) == [id |-> s.id + j, parent |-> ph.id,
                           name |-> <<ph.name, suffix>>]
        a1 == AddRow(s, n, "plans", row(0, PlanSuffixes[1]))
        a2 == AddRow(a1, n, "plans", row(1, PlanSuffixes[2]))
        a3 == AddRow(a2, n, "packages", row(2, PackageSuffixes[1]))
        a4 == AddRow(a3, n, "packages", row(3, PackageSuffixes[2]))
    IN IF i > Len(phases) THEN s
       ELSE AddPlansAndPackages(a4, phases, i + 1)

\* for project in Project.query.all(): three phases; commit; then for every
\* phase of the project two plans and two packages
RECURSIVE AddStructures(_, _, _)
AddStructures(s, projects, i) ==
    LET n == "create_test_management_structures"
        p == projects[i]
        phase(j) == [id |-> s.id + j - 1, parent |-> p.id, name |-> PhaseNames[j]]
        a1 == AddRow(s, n, "phases", phase(1))
        a2 == AddRow(a1, n, "phases", phase(2))
        a3 == AddRow(a2, n, "phases", phase(3))
        c == CommitRows(a3, n)
        own == InOrder({ph \in c.tx.phases : ph.parent = p.id})
    IN IF i > Len(projects) THEN s
       ELSE IF c.ret = "raise" THEN c
       ELSE AddStructures(AddPlansAndPackages(c, own, 1), projects, i + 1)

create_test_management_structures(s, admin_user_id) ==
    LET n == "create_test_management_structures"
        a == AddStructures(s, InOrder(s.tx.projects), 1)
        c == CommitRows(a, n)
    IN IF ~Mapped(s.tx, "projects") \/ "test_phases" \notin s.tx.tabs THEN Raise(s, n)
       ELSE IF a.ret = "raise" THEN a
       ELSE IF c.ret = "raise" THEN c
       ELSE Return(Say(c, n, "applied"), "None")

\* ------------------------------------------------------------ entry points
\* The steps run_all_migrations calls after create_all, in order.
MigrationCatalog ==
    <<
      "remove_username_constraint", "add_project_user_id",
      "add_organization_id_to_users", "migrate_ai_model_preference_column",
      "migrate_bdd_scenarios_examples_data", "migrate_bdd_features_content",
      "migrate_bdd_steps_element_metadata", "migrate_user_roles_content",
      "migrate_document_analysis_content",
      "migrate_bdd_scenario_name_length", "migrate_test_run_user_id",
      "migrate_test_management_cascade_deletes",
      "migrate_test_cases_category_length",
      "migrate_uploaded_code_files_table", "migrate_user_preferences_table",
      "migrate_users_email_verification", "migrate_users_test_runs_passed",
      "migrate_users_test_runs_limit", "migrate_selenium_tests_schema",
      "migrate_sdd_reviews_table", "migrate_sdd_enhancements_table",
      "migrate_project_unit_tests_table", "migrate_virtual_testing_tables",
      "migrate_workflow_tables",
      "migrate_test_management_unique_constraints",
      "migrate_project_archive_columns" >>

\* The steps initialize_database_with_ai_models calls after create_all.
InitCatalog ==
    SubSeq(MigrationCatalog, 1, 25)
    \o <<"migrate_test_management_unique_constraints",
         "migrate_project_archive_columns">>

\* The steps of create_sample_data with sdd_enhancements created before
\* sdd_reviews.
SampleCatalogEnhancementsFirst ==
    SubSeq(MigrationCatalog, 1, 19)
    \o <<"migrate_sdd_enhancements_table", "migrate_sdd_reviews_table">>
    \o SubSeq(MigrationCatalog, 22, 25)

\* The steps create_sample_data calls before it seeds.
SampleCatalog == SubSeq(MigrationCatalog, 1, 25)

Calls(ops, fn) == [i \in DOMAIN ops |-> [op |-> ops[i], at |-> fn]]

\* What create_sample_data does once it has found no project.
SampleBody ==
    Calls(SampleCatalog
          \o <<"create_default_users", "seed_projects", "seed_runs",
               "create_test_management_structures">>, "create_sample_data")

\* initialize_database_with_ai_models creating the default accounts before
\* the steps.
ProgramUsersFirst(m) ==
    Calls(<<"create_all", "create_default_users">> \o InitCatalog
          \o <<"create_sample_data", "create_test_management_structures">>,
          "initialize_database_with_ai_models")

\* run_all_migrations going on to create the default accounts.
ProgramSeedingMigrate(m) ==
    Calls(<<"create_all">> \o MigrationCatalog \o <<"create_default_users">>,
          "run_all_migrations")

\* run_all_migrations with the base tables created after the steps.
ProgramCreateAllLast(m) ==
    Calls(MigrationCatalog \o <<"create_all">>, "run_all_migrations")

\* The operations of an entry point, in order.  "seed-twice" is the driver
\* that calls create_default_users two times in succession.
Program(m) ==
    CASE m = "migrate-only" ->
            Calls(<<"create_all">> \o MigrationCatalog, "run_all_migrations")
      [] m = "full-init" ->
            Calls(<<"create_all">> \o InitCatalog
                  \o <<"create_default_users", "create_sample_data",
                       "create_test_management_structures">>,
                  "initialize_database_with_ai_models")
      [] m = "sample-data" -> Calls(<<"create_sample_data">>, "main")
      [] m = "seed-twice" ->
            Calls(<<"create_default_users", "create_default_users">>, "main")

\* A step function by name.
Apply(op, s) ==
    CASE op = "remove_username_constraint" -> remove_username_constraint(s)
      [] op = "add_project_user_id" -> add_project_user_id(s)
      [] op = "add_organization_id_to_users" -> add_organization_id_to_users(s)
      [] op = "migrate_ai_model_preference_column" -> migrate_ai_model_preference_column(s)
      [] op = "migrate_bdd_scenarios_examples_data" -> migrate_bdd_scenarios_examples_data(s)
      [] op = "migrate_bdd_features_content" -> migrate_bdd_features_content(s)
      [] op = "migrate_bdd_steps_element_metadata" -> migrate_bdd_steps_element_metadata(s)
      [] op = "migrate_user_roles_content" -> migrate_user_roles_content(s)
      [] op = "migrate_document_analysis_content" -> migrate_document_analysis_content(s)
      [] op = "migrate_bdd_scenario_name_length" -> migrate_bdd_scenario_name_length(s)
      [] op = "migrate_test_run_user_id" -> migrate_test_run_user_id(s)
      [] op = "migrate_test_management_cascade_deletes" -> migrate_test_management_cascade_deletes(s)
      [] op = "migrate_test_cases_category_length" -> migrate_test_cases_category_length(s)
      [] op = "migrate_uploaded_code_files_table" -> migrate_uploaded_code_files_table(s)
      [] op = "migrate_user_preferences_table" -> migrate_user_preferences_table(s)
      [] op = "migrate_users_email_verification" -> migrate_users_email_verification(s)
      [] op = "migrate_users_test_runs_passed" -> migrate_users_test_runs_passed(s)
      [] op = "migrate_users_test_runs_limit" -> migrate_users_test_runs_limit(s)
      [] op = "migrate_selenium_tests_schema" -> migrate_selenium_tests_schema(s)
      [] op = "migrate_sdd_reviews_table" -> migrate_sdd_reviews_table(s)
      [] op = "migrate_sdd_enhancements_table" -> migrate_sdd_enhancements_table(s)
      [] op = "migrate_project_unit_tests_table" -> migrate_project_unit_tests_table(s)
      [] op = "migrate_virtual_testing_tables" -> migrate_virtual_testing_tables(s)
      [] op = "migrate_workflow_tables" -> migrate_workflow_tables(s)
      [] op = "migrate_test_management_unique_constraints" ->
            migrate_test_management_unique_constraints(s)
      [] op = "migrate_project_archive_columns" -> migrate_project_archive_columns(s)

\* ------------------------------------------------------------------ actions
\* The session as a step function finds it; flt is the statement to reject.
Session(flt) ==
    [db |-> db, tx |-> tx, ab |-> ab, log |-> log, k |-> 0, flt |-> flt,
     ok |-> TRUE, why |-> "", ret |-> "None", val |-> 0, id |-> nid]

CurrentFault == IF fault[1] = stepNo + 1 THEN fault[2] ELSE 0

At(op) == status = "running" /\ prog # <<>> /\ Head(prog).op = op

ReturnEvent(op, r) ==
    [Event(op, "return", NoStmt, r.ret # "raise") EXCEPT !.name = r.ret]

\* The operation at the head of the program has run and left session r; rest
\* is what remains to do.  An exception ends the entry point ("raise" in
\* run_all_migrations and initialize_database_with_ai_models, an uncaught
\* exception elsewhere); the session is discarded when the process ends.
Finish(r, rest, newloc, orm) ==
    LET raised == r.ret = "raise"
        killed == Dead(r)
        todo == IF raised \/ killed THEN <<>> ELSE rest
        over == todo = <<>>
        out == IF killed THEN "killed" ELSE IF raised THEN "raised" ELSE "done"
    IN /\ db' = r.db
       /\ tx' = IF over THEN r.db ELSE r.tx
       /\ ab' = IF over THEN FALSE ELSE r.ab
       /\ log' = IF killed THEN r.log
                 ELSE Append(r.log, ReturnEvent(Head(prog).op, r))
       /\ nid' = r.id
       /\ prog' = todo
       /\ status' = IF over THEN out ELSE "running"
       /\ stepNo' = stepNo + 1
       /\ hist' = [hist EXCEPT !.ends = IF over THEN Append(@, r.db) ELSE @,
                               !.outs = IF over THEN Append(@, out) ELSE @,
                               !.orm = orm]
       /\ loc' = newloc
       /\ UNCHANGED <<uri, mode, fault, runNo>>

Run_create_all ==
    /\ At("create_all")
    /\ \E orm \in IF {"users", "test_phases", "test_plans", "test_packages"}
                     \subseteq db.tabs
                  THEN {{}} ELSE SUBSET {"uq", "email"} :
          /\ Finish(create_all(Session(CurrentFault), orm), Tail(prog), loc, orm)
Run_remove_username_constraint ==
    /\ At("remove_username_constraint")
    /\ Finish(remove_username_constraint(Session(CurrentFault)), Tail(prog), loc, hist.orm)

Run_add_project_user_id ==
    /\ At("add_project_user_id")
    /\ Finish(add_project_user_id(Session(CurrentFault)), Tail(prog), loc, hist.orm)

Run_add_organization_id_to_users ==
    /\ At("add_organization_id_to_users")
    /\ Finish(add_organization_id_to_users(Session(CurrentFault)), Tail(prog), loc, hist.orm)

Run_migrate_ai_model_preference_column ==
    /\ At("migrate_ai_model_preference_column")
    /\ Finish(migrate_ai_model_preference_column(Session(CurrentFault)), Tail(prog), loc, hist.orm)

Run_migrate_bdd_scenarios_examples_data ==
    /\ At("migrate_bdd_scenarios_examples_data")
    /\ Finish(migrate_bdd_scenarios_examples_data(Session(CurrentFault)), Tail(prog), loc, hist.orm)

Run_migrate_bdd_features_content ==
    /\ At("migrate_bdd_features_content")
    /\ Finish(migrate_bdd_features_content(Session(CurrentFault)), Tail(prog), loc, hist.orm)

Run_migrate_bdd_steps_element_metadata ==
    /\ At("migrate_bdd_steps_element_metadata")
    /\ Finish(migrate_bdd_steps_element_metadata(Session(CurrentFault)), Tail(prog), loc, hist.orm)

Run_migrate_user_roles_content ==
    /\ At("migrate_user_roles_content")
    /\ Finish(migrate_user_roles_content(Session(CurrentFault)), Tail(prog), loc, hist.orm)

Run_migrate_document_analysis_content ==
    /\ At("migrate_document_analysis_content")
    /\ Finish(migrate_document_analysis_content(Session(CurrentFault)), Tail(prog), loc, hist.orm)

Run_migrate_bdd_scenario_name_length ==
    /\ At("migrate_bdd_scenario_name_length")
    /\ Finish(migrate_bdd_scenario_name_length(Session(CurrentFault)), Tail(prog), loc, hist.orm)

Run_migrate_test_run_user_id ==
    /\ At("migrate_test_run_user_id")
    /\ Finish(migrate_test_run_user_id(Session(CurrentFault)), Tail(prog), loc, hist.orm)

Run_migrate_test_management_cascade_deletes ==
    /\ At("migrate_test_management_cascade_deletes")
    /\ Finish(migrate_test_management_cascade_deletes(Session(CurrentFault)), Tail(prog), loc, hist.orm)

Run_migrate_test_cases_category_length ==
    /\ At("migrate_test_cases_category_length")
    /\ Finish(migrate_test_cases_category_length(Session(CurrentFault)), Tail(prog), loc, hist.orm)

Run_migrate_uploaded_code_files_table ==
    /\ At("migrate_uploaded_code_files_table")
    /\ Finish(migrate_uploaded_code_files_table(Session(CurrentFault)), Tail(prog), loc, hist.orm)

Run_migrate_user_preferences_table ==
    /\ At("migrate_user_preferences_table")
    /\ Finish(migrate_user_preferences_table(Session(CurrentFault)), Tail(prog), loc, hist.orm)

Run_migrate_users_email_verification ==
    /\ At("migrate_users_email_verification")
    /\ Finish(migrate_users_email_verification(Session(CurrentFault)), Tail(prog), loc, hist.orm)

Run_migrate_users_test_runs_passed ==
    /\ At("migrate_users_test_runs_passed")
    /\ Finish(migrate_users_test_runs_passed(Session(CurrentFault)), Tail(prog), loc, hist.orm)

Run_migrate_users_test_runs_limit ==
    /\ At("migrate_users_test_runs_limit")
    /\ Finish(migrate_users_test_runs_limit(Session(CurrentFault)), Tail(prog), loc, hist.orm)

Run_migrate_selenium_tests_schema ==
    /\ At("migrate_selenium_tests_schema")
    /\ Finish(migrate_selenium_tests_schema(Session(CurrentFault)), Tail(prog), loc, hist.orm)

Run_migrate_sdd_reviews_table ==
    /\ At("migrate_sdd_reviews_table")
    /\ Finish(migrate_sdd_reviews_table(Session(CurrentFault)), Tail(prog), loc, hist.orm)

Run_migrate_sdd_enhancements_table ==
    /\ At("migrate_sdd_enhancements_table")
    /\ Finish(migrate_sdd_enhancements_table(Session(CurrentFault)), Tail(prog), loc, hist.orm)

Run_migrate_project_unit_tests_table ==
    /\ At("migrate_project_unit_tests_table")
    /\ Finish(migrate_project_unit_tests_table(Session(CurrentFault)), Tail(prog), loc, hist.orm)

Run_migrate_virtual_testing_tables ==
    /\ At("migrate_virtual_testing_tables")
    /\ Finish(migrate_virtual_testing_tables(Session(CurrentFault)), Tail(prog), loc, hist.orm)

Run_migrate_workflow_tables ==
    /\ At("migrate_workflow_tables")
    /\ Finish(migrate_workflow_tables(Session(CurrentFault)), Tail(prog), loc, hist.orm)

Run_migrate_test_management_unique_constraints ==
    /\ At("migrate_test_management_unique_constraints")
    /\ Finish(migrate_test_management_unique_constraints(Session(CurrentFault)), Tail(prog), loc, hist.orm)

Run_migrate_project_archive_columns ==
    /\ At("migrate_project_archive_columns")
    /\ Finish(migrate_project_archive_columns(Session(CurrentFault)), Tail(prog), loc, hist.orm)


\* The local that receives the value of create_default_users in each caller.
ReceiveId(r) ==
    [admin_id |-> IF r.ret = "id" /\ Head(prog).at = "initialize_database_with_ai_models"
                  THEN r.val ELSE loc.admin_id,
     admin_user_id |-> IF r.ret = "id" /\ Head(prog).at = "create_sample_data"
                       THEN r.val ELSE loc.admin_user_id,
     rets |-> Append(loc.rets, r.val)]

FinishDefaultUsers(r) == Finish(r, Tail(prog), ReceiveId(r), hist.orm)

Run_create_default_users ==
    /\ At("create_default_users")
    /\ \E pick \in AdminCandidates(tx) :
          FinishDefaultUsers(create_default_users(Session(0), pick))

\* create_sample_data up to its schema fixups: returns at once when a project
\* exists, otherwise goes on with SampleBody.
Run_create_sample_data ==
    /\ At("create_sample_data")
    /\ LET s == Session(0)
           n == "create_sample_data"
       IN IF ~Mapped(s.tx, "projects")
          THEN Finish(Raise([s EXCEPT !.ab = (Backend = "postgresql")], n), Tail(prog), loc, hist.orm)
          ELSE IF SampleDataPresent(s.tx)
               THEN Finish(Return(Say(s, n, "exists"), "None"), Tail(prog), loc, hist.orm)
          ELSE Finish(Return(s, "None"), SampleBody \o Tail(prog), loc, hist.orm)

Run_seed_projects ==
    /\ At("seed_projects")
    /\ Finish(seed_projects(Session(0), loc.admin_user_id), Tail(prog), loc, hist.orm)

Run_seed_runs ==
    /\ At("seed_runs")
    /\ Finish(seed_runs(Session(0), loc.admin_user_id), Tail(prog), loc, hist.orm)

Run_create_test_management_structures ==
    /\ At("create_test_management_structures")
    /\ Finish(create_test_management_structures(Session(0),
                 IF Head(prog).at = "create_sample_data"
                 THEN loc.admin_user_id ELSE loc.admin_id),
              Tail(prog), loc, hist.orm)

\* The operator starts the same entry point a second time.
Restart ==
    /\ status \in {"done", "raised", "killed"}
    /\ runNo = 1
    /\ runNo' = 2
    /\ prog' = Program(mode)
    /\ status' = "running"
    /\ stepNo' = 0
    /\ log' = <<>>
    /\ loc' = [admin_id |-> 0, admin_user_id |-> 0, rets |-> <<>>]
    /\ fault' = <<0, 0>>
    /\ UNCHANGED <<uri, mode, db, tx, ab, hist, nid>>

Migrate ==
    \/ Run_create_all
    \/ Run_remove_username_constraint
    \/ Run_add_project_user_id
    \/ Run_add_organization_id_to_users
    \/ Run_migrate_ai_model_preference_column
    \/ Run_migrate_bdd_scenarios_examples_data
    \/ Run_migrate_bdd_features_content
    \/ Run_migrate_bdd_steps_element_metadata
    \/ Run_migrate_user_roles_content
    \/ Run_migrate_document_analysis_content
    \/ Run_migrate_bdd_scenario_name_length
    \/ Run_migrate_test_run_user_id
    \/ Run_migrate_test_management_cascade_deletes
    \/ Run_migrate_test_cases_category_length
    \/ Run_migrate_uploaded_code_files_table
    \/ Run_migrate_user_preferences_table
    \/ Run_migrate_users_email_verification
    \/ Run_migrate_users_test_runs_passed
    \/ Run_migrate_users_test_runs_limit
    \/ Run_migrate_selenium_tests_schema
    \/ Run_migrate_sdd_reviews_table
    \/ Run_migrate_sdd_enhancements_table
    \/ Run_migrate_project_unit_tests_table
    \/ Run_migrate_virtual_testing_tables
    \/ Run_migrate_workflow_tables
    \/ Run_migrate_test_management_unique_constraints
    \/ Run_migrate_project_archive_columns

Seed ==
    \/ Run_create_default_users
    \/ Run_create_sample_data
    \/ Run_seed_projects
    \/ Run_seed_runs
    \/ Run_create_test_management_structures

\* ----------------------------------------------------------- specifications
Start(m, u, d, f) ==
    /\ uri = u
    /\ mode = m
    /\ db = d
    /\ tx = d
    /\ ab = FALSE
    /\ log = <<>>
    /\ prog = Program(m)
    /\ status = "running"
    /\ stepNo = 0
    /\ fault = f
    /\ runNo = 1
    /\ hist = [start |-> d, ends |-> <<>>, outs |-> <<>>, orm |-> {}]
    /\ loc = [admin_id |-> 0, admin_user_id |-> 0, rets |-> <<>>]
    /\ nid = 20

\* migrate-only, run twice, from every starting schema, nothing injected
Init ==
    \E u \in RunDescriptors, E \in StartElementSets :
        Start("migrate-only", u, SchemaOf(E), <<0, 0>>)

Next == Migrate \/ Restart

Spec == Init /\ [][Next]_vars

\* ------------------------------------------------------------------ claims
SecondRunOver == runNo = 2 /\ status # "running" /\ Len(hist.ends) = 2

DdlEvents == {i \in DOMAIN log : log[i].kind = "ddl"}

\* C1: the schema after running the catalog twice is the schema after
\* running it once, for every descriptor and starting schema.
C1_IdempotentReplay ==
    SecondRunOver => Schema(hist.ends[2]) = Schema(hist.ends[1])

\* C1 witness: a second run has ended after a first run that changed the
\* starting schema.
C1_Witness ==
    /\ SecondRunOver
    /\ Schema(hist.ends[1]) # Schema(hist.start)

UnguardedSteps ==
    {"remove_username_constraint", "migrate_bdd_scenario_name_length",
     "migrate_test_management_cascade_deletes",
     "migrate_test_cases_category_length",
     "migrate_test_management_unique_constraints"}

OlderSddElements ==
    TargetElements \ {<<"C", "sdd_reviews", c>> : c \in {"pain_points", "chunks_analyzed"}}

FaultStartElementSets == {{}, LegacyElements, TargetElements, OlderSddElements}

\* One run of migrate-only or full-init in which the backend rejects the
\* i-th statement of the n-th operation (n = 1 is db.create_all()); an
\* operation that issues fewer than i statements runs undisturbed.
InitFault ==
    \E m \in {"migrate-only", "full-init"}, u \in RunDescriptors,
       E \in FaultStartElementSets, n \in 1..(Len(InitCatalog) + 1),
       i \in 1..MaxFaultStmt :
        Start(m, u, SchemaOf(E), <<n, i>>)

NextFault == Migrate \/ Seed

SpecFault == InitFault /\ [][NextFault]_vars

\* A new session on database d in which nothing is injected.
Fresh(d) ==
    [db |-> d, tx |-> d, ab |-> FALSE, log |-> <<>>, k |-> 0, flt |-> 0,
     ok |-> TRUE, why |-> "", ret |-> "None", val |-> 0, id |-> 0]

\* A schema as a set of elements: tables, columns, constraints, widths.
ElementsOf(d) ==
    {<<"T", t>> : t \in d.tabs}
    \cup {<<"C", c>> : c \in d.cols}
    \cup {<<"K", k>> : k \in d.cons}
    \cup {<<"W", c, d.wid[c]>> : c \in WidthColumns}

\* What step op establishes on database d when nothing disturbs it: the
\* elements it adds and the elements it removes.
Establishes(op, d) == ElementsOf(Apply(op, Fresh(d)).db) \ ElementsOf(d)
Removes(op, d) == ElementsOf(d) \ ElementsOf(Apply(op, Fresh(d)).db)

ForcedEvents == {i \in DOMAIN log : log[i].kind = "ddl" /\ log[i].why = "forced"}

\* C3: in run_all_migrations, when the backend rejects a statement of step
\* k, the run goes on: step k and every step after it return to the caller
\* in catalog order, and every step after k leaves in the committed schema
\* what it establishes on the schema it found.
C3_FailureIsolation ==
    [][(/\ mode = "migrate-only" /\ status = "running"
        /\ fault[1] > 1 /\ ForcedEvents' # {})
       => /\ prog' = Tail(prog)
          /\ status' # "raised"
          /\ log'[Len(log')].kind = "return"
          /\ log'[Len(log')].step = Head(prog).op
          /\ ForcedEvents # {} =>
                /\ Establishes(Head(prog).op, db) \subseteq ElementsOf(db')
                /\ Removes(Head(prog).op, db) \cap ElementsOf(db') = {}]_vars

\* C3 witness: a run has ended in which a statement of a step was rejected
\* and a later step then added a column.
C3_Witness ==
    /\ mode = "migrate-only" /\ status = "done"
    /\ \E i \in ForcedEvents :
          /\ log[i].step # "create_all"
          /\ \E j \in DOMAIN log :
                /\ j > i /\ log[j].kind = "ddl" /\ log[j].eff
                /\ log[j].stmt = "ADD COLUMN" /\ log[j].step # log[i].step

\* C4: when db.create_all() fails, in migrate-only and in full-init, the run
\* ends with the exception raised again, no step and no seeding operation
\* has run, and the database is as it was.
C4_FatalCreateAll ==
    (\E i \in DOMAIN log : /\ log[i].step = "create_all"
                           /\ log[i].kind = "ddl" /\ ~log[i].ok) =>
        /\ status = "raised"
        /\ prog = <<>>
        /\ \A i \in DOMAIN log : log[i].step = "create_all"
        /\ db = hist.start

\* C4 witness: full-init has ended on a rejected db.create_all().
C4_Witness ==
    /\ mode = "full-init" /\ status = "raised"
    /\ \E i \in ForcedEvents : log[i].step = "create_all"

\* ---------------------------------------------- what a step records
\* What the operation of this transition appended to the output.
NewEvents == SubSeq(log', Len(log) + 1, Len(log'))
\* The classes of the messages it printed.
Printed ==
    {NewEvents[i].name : i \in {j \in DOMAIN NewEvents : NewEvents[j].kind = "print"}}
AtCatalogStep ==
    status = "running" /\ prog # <<>> /\ Head(prog).op \in Range(InitCatalog)
\* What happened in the step: a statement was rejected or the handler of an
\* exception ran; otherwise the committed schema changed; otherwise nothing.
Outcome ==
    IF \E i \in DOMAIN NewEvents :
          \/ NewEvents[i].kind = "rollback"
          \/ NewEvents[i].kind = "ddl" /\ ~NewEvents[i].ok
    THEN "failed"
    ELSE IF Schema(db') # Schema(db) THEN "applied"
    ELSE "already-satisfied"
\* What a message of class cls says happened.
Reported(cls) ==
    IF cls \in {"applied", "added"} THEN "applied"
    ELSE IF cls = "exists" THEN "already-satisfied"
    ELSE "failed"

\* C5 as stated: every step of the catalog records exactly one outcome, and
\* it is the outcome the step had.
C5_OneOutcomePerStep ==
    [][AtCatalogStep =>
          \E c \in Printed : Printed = {c} /\ Reported(c) = Outcome]_vars

\* C5 amended: every step of the catalog prints at least one outcome message,
\* and a step that prints nothing but "already satisfied" has left the
\* committed schema as it was.
C5_StepMessages ==
    [][AtCatalogStep =>
          /\ Printed # {}
          /\ Printed = {"exists"} => Schema(db') = Schema(db)]_vars

\* C5 witness: a run has ended in which steps printed messages of all three
\* kinds.
C5_Witness ==
    /\ status = "done"
    /\ \A c \in {"applied", "exists", "error"} :
          \E i \in DOMAIN log : log[i].kind = "print" /\ log[i].name = c

\* ------------------------------------------------------ runs that seed
\* Starting schemas of the seeding runs: the empty database, the legacy
\* database, and the target schema with and without the uniqueness of
\* users.email and of the test-management names.
SeedStartElementSets ==
    {{}, LegacyElements}
    \cup {TargetElements \ (A \cup B) :
            A \in {{}, {<<"K", "users_email_key">>}},
            B \in {{}, {<<"K", c[2]>> : c \in Range(UniqueConstraints)}}}

OtherEmails == <<"user1@example.com", "user2@example.com", "user3@example.com">>

HasPreferenceColumn(d) == <<"users", "ai_model_preference">> \in d.cols

\* The user tables a run may find: no, one or (where the schema allows it)
\* two rows of the admin email, a row of the second default account or none,
\* and up to MaxOtherUsers other users.
StartAdminRows(d) ==
    LET p == IF HasPreferenceColumn(d) THEN DefaultModel ELSE "NULL"
        one == {[id |-> 8, email |-> AdminEmail, pref |-> p]}
    IN {{}, one}
       \cup (IF "users_email_key" \in d.cons THEN {}
             ELSE {one \cup {[id |-> 7, email |-> AdminEmail, pref |-> p]}})

StartMiriamRows(d) ==
    {{}, {[id |-> 9, email |-> MiriamEmail,
           pref |-> IF HasPreferenceColumn(d) THEN "" ELSE "NULL"]}}

StartOtherRows(d) ==
    UNION {{{[id |-> i, email |-> OtherEmails[i], pref |-> f[i]] : i \in 1..n} :
              f \in [1..n -> IF HasPreferenceColumn(d)
                             THEN {"other-model", "NULL"} ELSE {"NULL"}]} :
           n \in 0..MaxOtherUsers}

StartUsers(d) ==
    IF "users" \notin d.tabs THEN {{}}
    ELSE {a \cup m \cup o : a \in StartAdminRows(d), m \in StartMiriamRows(d),
                            o \in StartOtherRows(d)}

StartProjects(d) ==
    IF "projects" \notin d.tabs THEN {{}}
    ELSE {{}, {[id |-> 10, owner |-> 8, name |-> <<"Existing", "Project">>]}}

\* Every entry point from every such database; the two calls of
\* create_default_users in succession from those whose users table the ORM
\* class can be used on.
InitSeed ==
    \E m \in {"migrate-only", "full-init", "sample-data", "seed-twice"},
       u \in RunDescriptors, E \in SeedStartElementSets :
        \E us \in StartUsers(SchemaOf(E)), ps \in StartProjects(SchemaOf(E)) :
            /\ m = "seed-twice" => Mapped(SchemaOf(E), "users")
            /\ Start(m, u, [SchemaOf(E) EXCEPT !.users = us, !.projects = ps],
                     <<0, 0>>)

NextSeed == Migrate \/ Seed \/ Restart

SpecSeed == InitSeed /\ [][NextSeed]_vars

\* --------------------------------------------------- claims on seeding
UsersWith(d, email) == {u \in d.users : u.email = email}
DefaultEmails == {AdminEmail, MiriamEmail}

\* C6 (scenario A): after full-init on an empty database there is exactly one
\* user row of each of the two default emails, each with a non-empty
\* ai_model_preference.
C6_ScenarioA ==
    (/\ mode = "full-init" /\ runNo = 1 /\ status # "running"
     /\ hist.start = SchemaOf({}))
    => \A e \in DefaultEmails :
          /\ Cardinality(UsersWith(db, e)) = 1
          /\ \A u \in UsersWith(db, e) : u.pref \notin {"", "NULL"}

\* C6 witness: full-init on the empty database has ended and both calls of
\* create_default_users have returned.
C6_Witness ==
    /\ mode = "full-init" /\ runNo = 1 /\ status # "running"
    /\ hist.start = SchemaOf({})
    /\ Len(loc.rets) = 2
    /\ db.users # {}

\* C7: two calls of create_default_users in succession, from a users table
\* with neither default email, return the same identifier and leave one row
\* of each default email.
C7_SeedGuard ==
    (/\ mode = "seed-twice" /\ status = "done"
     /\ \A e \in DefaultEmails : UsersWith(hist.start, e) = {})
    => /\ Len(loc.rets) = 2
       /\ loc.rets[1] = loc.rets[2]
       /\ \A e \in DefaultEmails : Cardinality(UsersWith(db, e)) = 1

\* C7 witness: the two calls have returned, from a users table that held
\* another user and neither default email.
C7_Witness ==
    /\ mode = "seed-twice" /\ status = "done" /\ runNo = 1
    /\ hist.start.users # {}
    /\ \A e \in DefaultEmails : UsersWith(hist.start, e) = {}
    /\ UsersWith(db, AdminEmail) # {}

\* C8 as stated: create_default_users never inserts a user row whose email
\* already has a row.
C8_NoDuplicateInsert ==
    [][At("create_default_users") =>
          \A u \in db'.users \ db.users : UsersWith(db, u.email) = {}]_vars

\* The operations of the seed bootstrapper.
AtSeeding ==
    /\ status = "running" /\ prog # <<>>
    /\ \/ Head(prog).op \in {"create_default_users", "create_sample_data"}
       \/ Head(prog).at = "create_sample_data"

\* C9 as stated: every user row that exists when an operation of the seed
\* bootstrapper starts is there, with the same field values, when it ends.
C9_UsersUntouched ==
    [][AtSeeding => \A u \in db.users : u \in db'.users]_vars

\* C9 amended: no operation removes a user row or changes its identifier or
\* email; ai_model_preference changes only from null or empty to the default
\* model.
C9_UsersKeptPreferenceDefaulted ==
    [][\A u \in db.users :
          \E v \in db'.users :
             /\ v.id = u.id /\ v.email = u.email
             /\ \/ v.pref = u.pref
                \/ u.pref \in {"NULL", ""} /\ v.pref = DefaultModel]_vars

\* C9 witness: a user that was there at the start with no preference has the
\* default model now, and one with another model still has it.
C9_Witness ==
    /\ \E u \in hist.start.users :
          /\ u.pref \in {"NULL", ""}
          /\ [u EXCEPT !.pref = DefaultModel] \in db.users
    /\ \E u \in hist.start.users : u.pref = "other-model" /\ u \in db.users

\* C10: when a row of the admin email exists, create_default_users returns
\* the identifier of such a row, adds no user, commits nothing and does not
\* call update_existing_users_ai_preference.
C10_GuardedReturn ==
    [][(At("create_default_users") /\ UsersWith(tx, AdminEmail) # {})
       => /\ db' = db /\ tx' = tx
          /\ status' # "raised"
          /\ \E u \in UsersWith(db, AdminEmail) :
                loc'.rets = Append(loc.rets, u.id)
          /\ \A i \in DOMAIN NewEvents :
                NewEvents[i].kind \notin {"insert", "commit", "call", "ddl"}]_vars

\* C10 witness: a call has returned the identifier of the admin row that was
\* there at the start, and the users are the users of the start.
C10_Witness ==
    /\ mode = "seed-twice" /\ runNo = 1
    /\ Len(loc.rets) = 1
    /\ \E u \in UsersWith(hist.start, AdminEmail) : loc.rets[1] = u.id
    /\ db.users = hist.start.users

\* ------------------------------------------------------ sample data and stages
\* The rows of every table of a database.
RowsOf(d) == <<d.users, d.projects, d.runs, d.phases, d.plans, d.packages>>

InsertEvents(events) == {i \in DOMAIN events : events[i].kind = "insert"}

\* C11 (Scenario D): create_sample_data called while a project row exists adds
\* no row to any table: the rows of every table are those before the call, no
\* insert is issued, the message that the data exists is printed and the call
\* returns to its caller without doing anything else.
C11_SampleDataSkipped ==
    [][(At("create_sample_data") /\ Mapped(tx, "projects") /\ tx.projects # {})
       => /\ RowsOf(db') = RowsOf(db)
          /\ InsertEvents(NewEvents) = {}
          /\ \E i \in DOMAIN NewEvents :
                NewEvents[i].kind = "print" /\ NewEvents[i].name = "exists"
          /\ prog' = Tail(prog)
          /\ status' # "raised"]_vars

C11_Witness ==
    /\ mode = "sample-data" /\ status = "done" /\ runNo = 1
    /\ hist.start.projects # {}
    /\ RowsOf(db) = RowsOf(hist.start)
    /\ \E i \in DOMAIN log : log[i].step = "create_sample_data"
                              /\ log[i].kind = "print"

\* The seeding stage an operation belongs to (0: none).
StageOf(op) ==
    CASE op = "create_default_users" -> 1
      [] op = "seed_projects" -> 2
      [] op = "seed_runs" -> 3
      [] op = "create_test_management_structures" -> 4
      [] OTHER -> 0

\* The stage operations the run has entered so far, by position in the log.
StageEntries ==
    {i \in DOMAIN log : log[i].kind = "return" /\ StageOf(log[i].step) > 0}

\* C12: in a run of sample-data or full-init the seeding stages are entered in
\* the order admins, projects, runs, phase structures, each at most once: of
\* two stage entries of one run the later one belongs to a later stage.
C12_StagesInOrder ==
    mode \in {"sample-data", "full-init"}
    => \A i, j \in StageEntries :
          i < j => StageOf(log[i].step) < StageOf(log[j].step)

\* Every project of database d has a row in the set of child rows.
EveryProjectHas(d, rows) ==
    d.projects # {} /\ \A p \in d.projects : \E r \in rows : r.parent = p.id

\* The data of the stage at the head of the program already exists.
StageDataExists ==
    \/ At("create_default_users") /\ UsersWith(tx, AdminEmail) # {}
    \/ At("create_sample_data") /\ tx.projects # {}
    \/ At("seed_projects") /\ tx.projects # {}
    \/ At("seed_runs") /\ EveryProjectHas(tx, tx.runs)
    \/ At("create_test_management_structures") /\ EveryProjectHas(tx, tx.phases)

\* C13: every seeding stage checks for its own data and inserts nothing when
\* the data exists: no insert is issued by create_default_users when the admin
\* row exists, by the project stage when a project exists, by the run stage
\* when the projects have runs, or by create_test_management_structures when
\* the projects have phases.
C13_StagesGuarded ==
    [][StageDataExists => InsertEvents(NewEvents) = {}]_vars

\* C14: after a full-init that completed, a second full-init inserts no row
\* into any table: it issues no insert and every table keeps the rows it had
\* when the first run ended.
C14_FullInitRepeatable ==
    (mode = "full-init" /\ runNo = 2 /\ hist.outs[1] = "done")
    => /\ InsertEvents(log) = {}
       /\ RowsOf(db) = RowsOf(hist.ends[1])

\* The positions of the log at which operation op returned.
Returns(op) == {i \in DOMAIN log : log[i].kind = "return" /\ log[i].step = op}

\* C15: sample-data, started on a database whose tables exist with a stale
\* schema, does not fail, and before its first insert every migration step
\* that migrate-only runs has been run by it.
C15_SampleDataFixesFirst ==
    (mode = "sample-data" /\ {"users", "projects"} \subseteq hist.start.tabs)
    => /\ status # "raised"
       /\ \A i \in InsertEvents(log) :
             \A k \in DOMAIN MigrationCatalog :
                \E j \in Returns(MigrationCatalog[k]) : j < i

\* The identifiers of the rows of every table of a database.
RowIdsOf(d) ==
    [i \in DOMAIN RowsOf(d) |-> {r.id : r \in RowsOf(d)[i]}]

\* C16: migrate-only seeds nothing: whatever rows the database holds at the
\* start, the run issues no insert and every table keeps exactly the rows it
\* had (the same identifiers, and outside users the same rows; in users only
\* the new ai_model_preference column is filled by its DEFAULT).
C16_MigrateOnlyNoInsert ==
    mode = "migrate-only"
    => /\ InsertEvents(log) = {}
       /\ RowIdsOf(db) = RowIdsOf(hist.start)
       /\ Tail(RowsOf(db)) = Tail(RowsOf(hist.start))
       /\ {[id |-> u.id, email |-> u.email] : u \in db.users}
            = {[id |-> u.id, email |-> u.email] : u \in hist.start.users}

C16_Witness ==
    /\ mode = "migrate-only" /\ status = "done"
    /\ hist.start.users # {} /\ hist.start.projects # {}
    /\ ElementsOf(db) # ElementsOf(hist.start)

\* ------------------------------------------------ order of full-init
MigrationSteps == Range(MigrationCatalog)

\* How often operation op has returned / is called by the catalog.
TimesReturned(op) == Cardinality(Returns(op))
TimesInCatalog(op) ==
    Cardinality({l \in DOMAIN InitCatalog : InitCatalog[l] = op})

\* A step of a full-init run keeps the order: a migration step is entered
\* only once create_all has returned, and the step that issues the first
\* insert of the run finds every step of the catalog returned.
KeepsCatalogFirst ==
    /\ (status = "running" /\ Head(prog).op \in MigrationSteps)
       => Returns("create_all") # {}
    /\ (InsertEvents(log) = {} /\ InsertEvents(log') # {})
       => \A op \in MigrationSteps : TimesReturned(op) >= TimesInCatalog(op)

\* C17 as stated: in full-init the base tables are created before every
\* migration step, the first insert comes after the whole catalog, and no
\* migration step runs once an insert has been issued.
C17_NoMigrationAfterSeeding ==
    [][mode = "full-init"
       => /\ KeepsCatalogFirst
          /\ InsertEvents(log) # {} =>
                \A i \in DOMAIN NewEvents :
                   NewEvents[i].step \notin MigrationSteps
          /\ \A i \in InsertEvents(NewEvents) :
                \A j \in DOMAIN NewEvents :
                   j > i => NewEvents[j].step \notin MigrationSteps]_vars

\* C17 (amended): in full-init the base tables are created before every
\* migration step and the whole catalog has returned before the first insert;
\* migration steps do run after seeding has started, as the fixups of
\* create_sample_data and inside create_default_users, and from the first
\* insert on nothing changes the schema.
C17_CatalogBeforeSeeding ==
    [][mode = "full-init"
       => /\ KeepsCatalogFirst
          /\ (/\ InsertEvents(log) # {} /\ status = "running"
              /\ Head(prog).op \in MigrationSteps)
             => Head(prog).at = "create_sample_data"
          /\ InsertEvents(log') # {} => Schema(db') = Schema(db)]_vars

C17_Witness ==
    /\ mode = "full-init" /\ status = "done" /\ runNo = 1
    /\ \E i \in InsertEvents(log) :
          \E j \in Returns("migrate_workflow_tables") : j > i

\* ------------------------------------------------ dialect classification
\* Descriptors of the three engine families the step functions speak of.
DialectDescriptors == Descriptors \cup {MysqlUri}

\* The legacy database after the columns the ORM classes need were added.
LegacyMappedElements ==
    LegacyElements
    \cup {<<"C", c[1], c[2]>> :
            c \in UNION {OrmColumns(t) : t \in {"users", "projects", "test_runs"}}}

\* The target database of a deployment in which one of the tables that the
\* add-column steps alter was never created.
PartialTargetSets ==
    {TargetElements \ {<<"T", t>>} :
        t \in {"bdd_features", "user_roles", "test_runs"}}

\* The target database of a deployment that was seeded twice before the
\* uniqueness of the test-management names was introduced: one user, one
\* project, and the first phase of the project twice.
TwiceSeeded ==
    [SchemaOf(TargetElements \ {<<"K", c[2]>> : c \in Range(UniqueConstraints)})
        EXCEPT !.users = {[id |-> 8, email |-> AdminEmail, pref |-> DefaultModel]},
               !.projects = {[id |-> 10, owner |-> 8,
                              name |-> <<"Existing", "Project">>]},
               !.phases = {[id |-> i, parent |-> 10, name |-> PhaseNames[1]] :
                              i \in {11, 12}}]

\* One run of run_all_migrations or of create_sample_data for every
\* descriptor, from the empty, the legacy and the target database, from the
\* target database less one table and from the twice-seeded database.
InitDialect ==
    \E m \in {"migrate-only", "sample-data"}, u \in DialectDescriptors :
        \/ \E E \in {{}, LegacyElements, LegacyMappedElements, TargetElements,
                      OlderSddElements} \cup PartialTargetSets :
               Start(m, u, SchemaOf(E), <<0, 0>>)
        \/ Start(m, u, TwiceSeeded, <<0, 0>>)

NextDialect == Migrate \/ Seed

SpecDialect == InitDialect /\ [][NextDialect]_vars

\* The JSON columns that steps add one by one: table, column.
JsonColumns ==
    {<<"bdd_steps", "element_metadata">>, <<"user_roles", "content">>,
     <<"document_analysis", "content">>}
    \cup {<<"sdd_reviews", c>> : c \in SddJsonColumns}

\* A statement in the form that the EmbeddedFile branch of its step emits.
EmbeddedForm(e) ==
    \/ e.stmt = "MODIFY COLUMN"
    \/ e.stmt = "CREATE TABLE"
       /\ (e.typ = "TEXT" \/ (e.tab = "virtual_test_executions" /\ e.fk = "clause"))
    \/ e.stmt = "ADD COLUMN" /\ <<e.tab, e.name>> \in JsonColumns /\ e.typ = "TEXT"

\* A statement in the form that the ClientServer branch of its step emits.
ClientServerForm(e) ==
    \/ e.stmt = "ALTER COLUMN TYPE"
    \/ e.stmt = "ADD CONSTRAINT" /\ e.typ # "UNIQUE"
    \/ e.stmt = "CREATE TABLE" /\ e.typ = "JSONB"
    \/ e.stmt = "ADD COLUMN" /\ <<e.tab, e.name>> \in JsonColumns /\ e.typ = "JSONB"

\* C18: every dialect-branching step takes the EmbeddedFile branch exactly
\* when the descriptor starts with "sqlite": a statement in the EmbeddedFile
\* form is emitted only under such a descriptor, a statement in the
\* ClientServer form only under any other.
C18_BranchByPrefix ==
    \A i \in DdlEvents :
        /\ EmbeddedForm(log[i]) => IsSqlite(uri)
        /\ ClientServerForm(log[i]) => ~IsSqlite(uri)

\* C19: under a descriptor of the embedded engine no statement of a migration
\* step uses the JSONB type; a JSON column is TEXT there.
C19_NoJsonbWhenEmbedded ==
    IsSqlite(uri) => \A i \in DdlEvents : log[i].typ # "JSONB"

\* The CREATE TABLE statements the steps have emitted, by position in the log.
CreateTableEvents ==
    {i \in DdlEvents : log[i].stmt = "CREATE TABLE" /\ log[i].step # "create_all"}

\* C20 as stated: under a descriptor of a client-server engine no CREATE
\* TABLE statement declares a foreign key inline on the column; inline
\* foreign keys are emitted under the embedded engine only.
C20_NoInlineFkOnClientServer ==
    \A i \in CreateTableEvents :
        log[i].fk \in {"inline", "mixed"} => IsSqlite(uri)

\* Tables whose CREATE TABLE declares its references on the columns under
\* every descriptor.
InlineFkTables ==
    {"uploaded_code_files", "user_preferences", "sdd_reviews",
     "sdd_enhancements", "project_unit_tests", "workflows"}

\* C20 (amended): no CREATE TABLE statement names a foreign-key constraint.
\* The statements of uploaded_code_files, user_preferences, sdd_reviews,
\* sdd_enhancements, project_unit_tests and workflows declare their foreign
\* keys inline on the column under every descriptor; that of
\* virtual_test_executions does so exactly under a postgresql descriptor and
\* uses unnamed FOREIGN KEY clauses otherwise.  A named foreign key is only
\* ever emitted by ALTER TABLE ... ADD CONSTRAINT, under a descriptor that
\* does not start with "sqlite".
C20_ForeignKeysUnnamed ==
    /\ \A i \in CreateTableEvents :
          /\ log[i].fk # "named"
          /\ log[i].tab \in InlineFkTables => log[i].fk = "inline"
          /\ log[i].tab = "virtual_test_executions"
                => (log[i].fk = "inline" <=> IsPostgres(uri))
                   /\ log[i].fk \in {"inline", "clause"}
    /\ \A i \in DdlEvents :
          (log[i].fk = "named" /\ log[i].typ = "FOREIGN KEY")
             => log[i].stmt = "ADD CONSTRAINT" /\ ~IsSqlite(uri)

C20_Witness ==
    /\ IsPostgres(uri) /\ status = "done"
    /\ \E i, j \in CreateTableEvents :
          /\ log[i].tab = "virtual_test_executions" /\ log[i].ok
          /\ log[j].tab = "uploaded_code_files" /\ log[j].ok
    /\ \E i \in DdlEvents : log[i].fk = "named" /\ log[i].typ = "FOREIGN KEY"

\* ------------------------------------------------ column-widening steps
WideningSteps ==
    {"migrate_bdd_scenario_name_length", "migrate_test_cases_category_length"}

\* The statements among the events of the step just taken.
NewDdl == {i \in DOMAIN NewEvents : NewEvents[i].kind = "ddl"}

\* The value the step just taken returned.
Returned == log'[Len(log')].name

\* C21: under a sqlite descriptor each of the two column-widening steps emits
\* no statement and returns True, whatever the declared width; under any
\* other descriptor the bdd_scenarios.name step emits ALTER COLUMN ... TYPE.
C21_WideningSkippedWhenEmbedded ==
    [][/\ (IsSqlite(uri) /\ \E op \in WideningSteps : At(op))
          => NewDdl = {} /\ Returned = "True"
       /\ (~IsSqlite(uri) /\ At("migrate_bdd_scenario_name_length"))
          => \E i \in NewDdl : NewEvents[i].stmt = "ALTER COLUMN TYPE"]_vars

\* The declared width of a column is below min or unknown.
Narrower(d, c, min) == d.wid[c] = NoWidth \/ d.wid[c] < min

AddColumnTarget ==
    [add_project_user_id |-> <<"projects", "user_id">>,
     add_organization_id_to_users |-> <<"users", "organization_id">>,
     migrate_ai_model_preference_column |-> <<"users", "ai_model_preference">>,
     migrate_bdd_scenarios_examples_data |-> <<"bdd_scenarios", "examples_data">>,
     migrate_bdd_features_content |-> <<"bdd_features", "content">>,
     migrate_bdd_steps_element_metadata |-> <<"bdd_steps", "element_metadata">>,
     migrate_user_roles_content |-> <<"user_roles", "content">>,
     migrate_document_analysis_content |-> <<"document_analysis", "content">>,
     migrate_test_run_user_id |-> <<"test_runs", "user_id">>,
     migrate_users_test_runs_passed |-> <<"users", "test_runs_passed">>,
     migrate_users_test_runs_limit |-> <<"users", "test_runs_limit">>]

AddColumnSteps == DOMAIN AddColumnTarget

\* An add-column step is about to run and its column exists.
AtAddColumnPresent ==
    /\ status = "running" /\ Head(prog).op \in AddColumnSteps
    /\ AddColumnTarget[Head(prog).op] \in db.cols

\* The step just taken touched nothing: no statement, commit or rollback.
Untouched ==
    \A i \in DOMAIN NewEvents : NewEvents[i].kind \notin {"ddl", "commit", "rollback"}

\* C23 as stated: every add-column step whose column already exists executes
\* no statement, issues no commit or rollback, and returns True.
C23_PresentColumnReturnsTrue ==
    [][AtAddColumnPresent => Untouched /\ Returned = "True"]_vars

\* C23 (amended): every add-column step whose column already exists executes
\* no statement and issues no commit or rollback; it returns True, except
\* migrate_ai_model_preference_column, which has no return value.
C23_PresentColumnUntouched ==
    [][AtAddColumnPresent
       => /\ Untouched
          /\ db' = db
          /\ Returned = IF Head(prog).op = "migrate_ai_model_preference_column"
                        THEN "None" ELSE "True"]_vars

C23_Witness ==
    /\ runNo = 2 /\ status = "done"
    /\ AddColumnTarget.add_project_user_id \notin hist.start.cols
    /\ \A op \in AddColumnSteps : AddColumnTarget[op] \in hist.ends[1].cols
    /\ \A i \in DOMAIN log :
          log[i].step \in AddColumnSteps => log[i].kind \in {"print", "return"}

\* C24 (Scenario B): on a projects table without user_id, add_project_user_id
\* executes exactly one statement, ALTER TABLE projects ADD COLUMN user_id
\* VARCHAR(36), under either dialect, commits it and returns True; called
\* when the column is there it emits no statement and raises nothing.
C24_ScenarioB ==
    [][At("add_project_user_id") /\ "projects" \in db.tabs
       => /\ Returned = "True" /\ status' # "raised"
          /\ <<"projects", "user_id">> \in db'.cols
          /\ IF <<"projects", "user_id">> \in db.cols
             THEN NewDdl = {}
             ELSE /\ Cardinality(NewDdl) = 1
                  /\ \A i \in NewDdl :
                        /\ NewEvents[i].stmt = "ADD COLUMN"
                        /\ NewEvents[i].tab = "projects"
                        /\ NewEvents[i].name = "user_id"
                        /\ NewEvents[i].typ = "VARCHAR(36)"
                        /\ NewEvents[i].ok
                        /\ \E j \in DOMAIN NewEvents :
                              j > i /\ NewEvents[j].kind = "commit" /\ NewEvents[j].ok]_vars

C24_Witness ==
    /\ runNo = 2 /\ status = "done"
    /\ "projects" \in hist.start.tabs
    /\ <<"projects", "user_id">> \notin hist.start.cols
    /\ <<"projects", "user_id">> \in hist.ends[1].cols
    /\ \E i \in Returns("add_project_user_id") : log[i].name = "True"
    /\ \A i \in DdlEvents : log[i].step # "add_project_user_id"

\* ------------------------------------------------ rejected statements
\* The statements of this transition that the backend rejected.
NewRejected == {i \in NewDdl : ~NewEvents[i].ok}
AtMigrationStep ==
    status = "running" /\ prog # <<>> /\ Head(prog).op \in MigrationSteps
NewKinds == {NewEvents[i].kind : i \in DOMAIN NewEvents}

\* C25: a migration step in which the backend rejects a statement rolls the
\* session back, commits nothing, does not raise to its caller, returns False
\* where it returns a status, and leaves the committed schema as it found it.
C25_RejectedStepRollsBack ==
    [][(AtMigrationStep /\ NewRejected # {})
       => /\ "rollback" \in NewKinds
          /\ "commit" \notin NewKinds
          /\ Returned \in {"False", "None"}
          /\ Schema(db') = Schema(db)]_vars

\* ------------------------------------------------ introspection
\* An add-column step is about to run and its table does not exist.
AtAddColumnMissingTable ==
    /\ status = "running" /\ prog # <<>>
    /\ Head(prog).op \in AddColumnSteps
    /\ AddColumnTarget[Head(prog).op][1] \notin db.tabs

\* C26: check_column_exists answers False for a table that does not exist,
\* so an add-column step whose table is missing gets past the check to its
\* ADD COLUMN statement instead of ending in the handler of an introspection
\* error.
C26_MissingTableReadsAsNoColumn ==
    [][AtAddColumnMissingTable => NewDdl # {}]_vars

\* ------------------------------------------------ unique constraints
\* The statements of this transition rejected because the constraint exists
\* or because rows of the table conflict with it.
NewSoftFailed == {i \in NewRejected : NewEvents[i].why \in {"exists", "duplicate"}}

\* C27: in migrate_test_management_unique_constraints a constraint rejected
\* because it exists or conflicts is reported as already there and rolled
\* back, every constraint of the list whose table exists is attempted, and
\* the step returns to its caller without raising.
C27_SoftFailGoesOn ==
    [][At("migrate_test_management_unique_constraints")
       => /\ Returned = "None"
          /\ \A i \in NewSoftFailed :
                /\ NewEvents[i + 1].kind = "print" /\ NewEvents[i + 1].name = "exists"
                /\ NewEvents[i + 2].kind = "rollback"
          /\ \A c \in Range(UniqueConstraints) :
                c[1] \in db.tabs => \E i \in NewDdl : NewEvents[i].name = c[2]
          /\ ~ab' /\ tx' = db']_vars

\* C27 witness: the step has returned after a constraint was rejected for
\* conflicting rows and a later constraint of the list was added.
C27_Witness ==
    \E i, j \in DdlEvents :
        /\ i < j
        /\ log[i].step = "migrate_test_management_unique_constraints"
        /\ log[j].step = "migrate_test_management_unique_constraints"
        /\ ~log[i].ok /\ log[i].why = "duplicate"
        /\ log[j].ok
        /\ Returns("migrate_test_management_unique_constraints") # {}

\* ------------------------------------------------ interrupted runs
\* The process is killed between two operations; the session is discarded.
Interrupt ==
    /\ status = "running" /\ runNo = 1 /\ fault = <<0, 0>>
    /\ status' = "killed"
    /\ prog' = <<>>
    /\ tx' = db
    /\ ab' = FALSE
    /\ hist' = [hist EXCEPT !.ends = Append(@, db), !.outs = Append(@, "killed")]
    /\ UNCHANGED <<uri, mode, db, log, stepNo, fault, runNo, loc, nid>>

\* run_all_migrations on every engine, from the empty, the legacy and the
\* target database; the first run is killed between two operations or when
\* the i-th statement of the n-th operation has returned, or runs to its end,
\* and then the catalog is run again.
InitResume ==
    \E u \in DialectDescriptors, E \in FaultStartElementSets :
        \/ Start("migrate-only", u, SchemaOf(E), <<0, 0>>)
        \/ \E n \in 2..(Len(MigrationCatalog) + 1), i \in 1..MaxFaultStmt :
              Start("migrate-only", u, SchemaOf(E), <<n, -i>>)

NextResume == Migrate \/ Interrupt \/ Restart

SpecResume == InitResume /\ [][NextResume]_vars

\* The steps of a catalog one after the other on one session.
RECURSIVE RunSteps(_, _, _)
RunSteps(s, steps, i) ==
    LET r == Apply(steps[i], [s EXCEPT !.k = 0, !.ok = TRUE, !.why = "",
                                       !.log = <<>>])
    IN IF i > Len(steps) THEN s
       ELSE IF r.ret = "raise" THEN r
       ELSE RunSteps(r, steps, i + 1)

\* The database that run_all_migrations leaves when nothing disturbs it.
Uninterrupted(d, orm) ==
    RunSteps(create_all(Fresh(d), orm), MigrationCatalog, 1).db

\* At the moment the run is killed the committed schema is the one that the
\* steps which had returned left.
C28_OnlyCommittedSteps ==
    (status = "running" /\ status' = "killed") => Schema(db') = Schema(db)

\* The run after a killed run ends with the schema of an undisturbed run.
C28_SameFinalSchema ==
    (/\ runNo = 2 /\ status = "running" /\ status' = "done"
     /\ hist.outs[1] = "killed")
    => \E orm \in SUBSET {"uq", "email"} :
          Schema(db') = Schema(Uninterrupted(hist.start, orm))

\* C28: when a migration run is interrupted after a step or in the middle of
\* a step, the committed schema holds exactly the effects of the steps that
\* were completed, and running the catalog again from the start ends with the
\* schema an uninterrupted run ends with.
C28_Resumable ==
    [][C28_OnlyCommittedSteps /\ C28_SameFinalSchema]_vars

\* ------------------------------------------------ commit boundaries
\* C29: every migration step ends its own transaction: when it returns the
\* session holds no uncommitted change and no aborted transaction, and a step
\* that rolls back leaves in the committed schema everything the session saw
\* when the step began, which is all that earlier steps did.
C29_OwnCommitBoundary ==
    [][AtMigrationStep
       => /\ tx' = db' /\ ~ab'
          /\ "rollback" \in NewKinds => ElementsOf(tx) \subseteq ElementsOf(db')]_vars

\* C29 witness: a run has ended in which a step changed the schema and a
\* later step rolled back.
C29_Witness ==
    /\ status = "done"
    /\ \E i \in DdlEvents : \E j \in DOMAIN log :
          /\ i < j /\ log[i].eff /\ log[j].kind = "rollback"
          /\ log[j].step # log[i].step
          /\ log[i].step # "create_all"

\* ------------------------------------------------ order of table creation
\* The legacy database: the base tables and none of the tables steps create.
LegacyDb == SchemaOf(LegacyElements)

\* The CREATE TABLE statements step op issues on the legacy database, the
\* tables they create and the tables they reference.
CreateStatements(op) ==
    LET l == Apply(op, Fresh(LegacyDb)).log
    IN {l[i] : i \in {j \in DOMAIN l : l[j].stmt = "CREATE TABLE"}}
Creates(op) == {e.tab : e \in CreateStatements(op)}
References(op) == UNION {e.refs : e \in CreateStatements(op)}

\* Every step of the catalog that references a table created by another step
\* comes after a step that creates that table.
RespectsForeignKeys(catalog) ==
    \A i \in DOMAIN catalog :
        \A r \in (References(catalog[i]) \cap StepCreatedTables) \ Creates(catalog[i]) :
            \E j \in 1..(i - 1) : r \in Creates(catalog[j])

\* A CREATE TABLE issued in this transition finds every step-created table it
\* references in place or created before it.
CreatedAfterReferenced ==
    \A i \in NewDdl :
        NewEvents[i].stmt = "CREATE TABLE" =>
            \A r \in (NewEvents[i].refs \cap StepCreatedTables) \ {NewEvents[i].tab} :
                \/ r \in tx.tabs
                \/ \E j \in 1..(Len(log) + i - 1) :
                      /\ log'[j].stmt = "CREATE TABLE" /\ log'[j].tab = r

\* C30: in the catalogs of migrate-only, full-init and sample-data every
\* table-creation step that references a table by foreign key comes after the
\* step that creates the referenced table, and in every run a CREATE TABLE is
\* issued only when the step-created tables it references were created before.
C30_CatalogOrderRespectsFk ==
    /\ \A catalog \in {MigrationCatalog, InitCatalog, SampleCatalog} :
          RespectsForeignKeys(catalog)
    /\ [][CreatedAfterReferenced]_vars

\* C30 witness: sample-data has created sdd_enhancements after sdd_reviews
\* and the workflow tables one after the other.
C30_Witness ==
    /\ mode = "sample-data"
    /\ \E i, j \in DdlEvents :
          /\ i < j /\ log[i].ok /\ log[j].ok
          /\ log[i].tab = "sdd_reviews" /\ log[i].stmt = "CREATE TABLE"
          /\ log[j].tab = "sdd_enhancements" /\ log[j].stmt = "CREATE TABLE"
    /\ \E i \in DdlEvents :
          log[i].ok /\ log[i].tab = "workflow_executions"

\* ------------------------------------------------ failures in the output
\* The rejected statement i of this transition is followed, before the next
\* statement, by a message about it (an error, a warning or the note that
\* the element exists), or the exception leaves the operation and the entry
\* point prints it.
Surfaced(i) ==
    \/ \E j \in DOMAIN NewEvents :
          /\ j > i /\ NewEvents[j].kind = "print"
          /\ NewEvents[j].name \in {"error", "warn", "exists"}
          /\ \A k \in (i + 1)..(j - 1) : NewEvents[k].kind # "ddl"
    \/ Returned = "raise"

PreferenceCall ==
    IF \E i \in DOMAIN NewEvents : NewEvents[i].kind = "call"
                                   /\ NewEvents[i].step = "update_existing_users_ai_preference"
    THEN CHOOSE i \in DOMAIN NewEvents :
            NewEvents[i].kind = "call"
            /\ NewEvents[i].step = "update_existing_users_ai_preference"
    ELSE 0

NoPreference(u) == u.pref \in {"NULL", ""}

\* C32: update_existing_users_ai_preference sets the preference of exactly
\* the users that have none (null or empty) to the default model, leaves the
\* preference of every other user as it is, and commits if and only if it
\* has updated at least one user.
C32_PreferenceDefaulted ==
    [][PreferenceCall > 0
       => /\ \A u \in db.users :
                (IF NoPreference(u) THEN [u EXCEPT !.pref = DefaultModel] ELSE u)
                    \in db'.users
          /\ \A v \in db'.users : ~NoPreference(v)
          /\ (\E j \in DOMAIN NewEvents :
                 j > PreferenceCall /\ NewEvents[j].kind = "commit")
             <=> (\E u \in db.users : NoPreference(u))]_vars

\* C32 witness: the function has run over a user without preference and a
\* user of another model, and has committed the one update.
C32_Witness ==
    /\ \E u \in hist.start.users :
          NoPreference(u) /\ [u EXCEPT !.pref = DefaultModel] \in db.users
    /\ \E u \in hist.start.users : ~NoPreference(u) /\ u.pref # DefaultModel /\ u \in db.users
    /\ \E i, j \in DOMAIN log :
          /\ i < j /\ log[i].kind = "call"
          /\ log[i].step = "update_existing_users_ai_preference"
          /\ log[j].kind = "commit" /\ log[j].step = "update_existing_users_ai_preference"

\* ------------------------------------------------ organization of a user
\* C33: on a client-server engine, when users.organization_id is missing and
\* the ADD CONSTRAINT of its foreign key is rejected, add_organization_id_to_users
\* still returns True and users.organization_id is in the committed schema
\* afterwards.
C33_ColumnKeptWithoutForeignKey ==
    [][(/\ At("add_organization_id_to_users")
        /\ ~IsSqlite(uri)
        /\ <<"users", "organization_id">> \notin db.cols
        /\ \E i \in NewRejected : NewEvents[i].stmt = "ADD CONSTRAINT")
       => /\ Returned = "True"
          /\ <<"users", "organization_id">> \in db'.cols]_vars

\* ------------------------------------------------ domain profiles
MaxNameWords == 3
NameWords == {"Banking", "E-Commerce", "Healthcare", "Portal"}

\* Project names of up to MaxNameWords words.
ProjectNames ==
    UNION {[1..n -> NameWords] : n \in 1..MaxNameWords}

\* create_sample_data at "domain_data = get_domain_expertise_for_project(
\* project.name)" for a project of the database.
Run_get_domain_expertise_for_project ==
    /\ At("get_domain_expertise_for_project")
    /\ \E p \in tx.projects :
          Finish(Return(Session(0), get_domain_expertise_for_project(p.name)),
                 Tail(prog), loc, hist.orm)

\* One call of the selection for one project whose name is any of
\* ProjectNames.
InitProfile ==
    \E u \in RunDescriptors, name \in ProjectNames :
        LET d == [SchemaOf(TargetElements)
                    EXCEPT !.projects = {[id |-> 10, owner |-> 8, name |-> name]}]
        IN /\ uri = u
           /\ mode = "sample-data"
           /\ db = d
           /\ tx = d
           /\ ab = FALSE
           /\ log = <<>>
           /\ prog = Calls(<<"get_domain_expertise_for_project">>, "create_sample_data")
           /\ status = "running"
           /\ stepNo = 0
           /\ fault = <<0, 0>>
           /\ runNo = 1
           /\ hist = [start |-> d, ends |-> <<>>, outs |-> <<>>, orm |-> {}]
           /\ loc = [admin_id |-> 0, admin_user_id |-> 8, rets |-> <<>>]
           /\ nid = 20

NextProfile == Run_get_domain_expertise_for_project

SpecProfile == InitProfile /\ [][NextProfile]_vars

Selected ==
    {log[i].name : i \in {j \in DOMAIN log :
                             /\ log[j].kind = "return"
                             /\ log[j].step = "get_domain_expertise_for_project"}}

\* C34: a project name containing "Banking" gets the financial profile, also
\* when it contains "E-Commerce" as well; otherwise a name containing
\* "E-Commerce" gets the retail profile; every other name gets the healthcare
\* profile.
C34_ProfileByKeyword ==
    \A p \in db.projects :
        /\ "financial" \in Selected => "Banking" \in Range(p.name)
        /\ "retail" \in Selected
              => "E-Commerce" \in Range(p.name) /\ "Banking" \notin Range(p.name)
        /\ "healthcare" \in Selected
              => Range(p.name) \cap {"Banking", "E-Commerce"} = {}
        /\ Selected \subseteq {"financial", "retail", "healthcare"}
        /\ status = "done" => Selected # {}

\* C34 witness: a name with both keywords, the retail one first, has been
\* given the financial profile.
C34_Witness ==
    /\ status = "done" /\ Selected = {"financial"}
    /\ \E p \in db.projects :
          \E i, j \in DOMAIN p.name :
             i < j /\ p.name[i] = "E-Commerce" /\ p.name[j] = "Banking"

\* ------------------------------------------------ sample rows
Children(rows, parent) == {r \in rows : r.parent = parent}

\* C35: when create_sample_data has ended on a database that held no project
\* (and whose users and projects tables fit the ORM classes), there are
\* exactly three projects, each with exactly three test runs and three
\* phases, each phase with two plans and two packages, and every project and
\* test run is owned by the identifier that create_default_users returned.
C35_SampleRows ==
    (/\ mode = "sample-data" /\ runNo = 1 /\ status \in {"done", "raised"}
     /\ hist.start.projects = {}
     /\ Mapped(hist.start, "projects") /\ Mapped(hist.start, "users"))
    => /\ Cardinality(db.projects) = 3
       /\ \A p \in db.projects :
             /\ p.owner = loc.admin_user_id
             /\ Cardinality(Children(db.runs, p.id)) = 3
             /\ \A r \in Children(db.runs, p.id) : r.owner = loc.admin_user_id
             /\ Cardinality(Children(db.phases, p.id)) = 3
             /\ \A ph \in Children(db.phases, p.id) :
                   /\ Cardinality(Children(db.plans, ph.id)) = 2
                   /\ Cardinality(Children(db.packages, ph.id)) = 2
       /\ \A r \in db.runs : \E p \in db.projects : r.parent = p.id
       /\ \A ph \in db.phases : \E p \in db.projects : ph.parent = p.id
       /\ loc.rets # <<>> /\ loc.admin_user_id = loc.rets[Len(loc.rets)]

\* ------------------------------------------------ full-init from nothing
\* C36: full-init on an empty database never raises, on either engine: no
\* insert of the seeding that follows the migrations is rejected by the
\* schema the migrations have left.
C36_FullInitCompletes ==
    (mode = "full-init" /\ runNo = 1 /\ hist.start.tabs = {})
    => /\ status # "raised"
       /\ \A i \in DOMAIN log : log[i].kind # "raise"

\* ------------------------------------------------ one dialect per run
\* C37: under any one connection descriptor, those starting with neither
\* "sqlite" nor "postgresql" included, the dialect-branching steps of a run
\* all take the branch of the same dialect family: a run never holds a
\* statement in the EmbeddedFile form and one in the ClientServer form.
C37_OneDialectPerRun ==
    ~\E i, j \in DdlEvents : EmbeddedForm(log[i]) /\ ClientServerForm(log[j])

\* ------------------------------------------------ status and postcondition
\* C38: whenever a migration step returns True, the schema elements it is
\* responsible for (what it adds to the schema it found when nothing disturbs
\* it: column, table, widened type or constraint) are in the committed schema
\* after the step has returned.
C38_TrueImpliesPostcondition ==
    [][(AtMigrationStep /\ Returned = "True")
       => Establishes(Head(prog).op, db) \subseteq ElementsOf(db')]_vars

\* ------------------------------------------------ multi-column steps
MultiColumnSteps ==
    [migrate_selenium_tests_schema |->
        {<<"selenium_tests", c[1]>> : c \in Range(SeleniumRequiredColumns)},
     migrate_users_email_verification |->
        {<<"users", c[1]>> : c \in Range(EmailVerificationColumns)}]

AtMultiColumnStep ==
    status = "running" /\ prog # <<>> /\ Head(prog).op \in DOMAIN MultiColumnSteps

\* C39: migrate_selenium_tests_schema and migrate_users_email_verification
\* are atomic: either every column found missing is in the committed schema
\* after the step, or, when a statement is rejected, none of them is and the
\* step returns False.
C39_AllOrNothing ==
    [][AtMultiColumnStep
       => LET cols == MultiColumnSteps[Head(prog).op]
              missing == cols \ db.cols
          IN \/ missing \subseteq db'.cols
             \/ /\ NewRejected # {}
                /\ missing \cap db'.cols = {}
                /\ Returned = "False"
             \/ NewDdl = {}]_vars

====
